---- MODULE Spec2Model ----
(***************************************************************************)
(* Directory & content back end (businesses, posts, tags, media folders).  *)
(* The document store (Firestore) and the object store (storage bucket)    *)
(* are the state; every HTTP handler of the controllers is an action.      *)
(* Strings are sequences of one-character strings, JSON values are tagged  *)
(* records, documents are functions from field names to JSON values.       *)
(***************************************************************************)
EXTENDS Integers, Sequences, FiniteSets, TLC

(***************************************************************************)
(* Bounds of the model.                                                    *)
(***************************************************************************)
\* number of auto-generated document ids the store can hand out per collection
MaxDocs == 2
\* number of objects the bucket holds at most
MaxObjects == 2
\* number of remove requests in flight at the same time
MaxInFlight == 1

(***************************************************************************)
(* Program constants.                                                      *)
(***************************************************************************)
\* joi.string().alphanum().length(20): length of a collection (document) id
IdLen == 20

(***************************************************************************)
(* Characters and JavaScript string functions.                             *)
(***************************************************************************)
Lowers == <<"a","b","c","d","e","f","g","h","i","j","k","l","m",
            "n","o","p","q","r","s","t","u","v","w","x","y","z">>
Uppers == <<"A","B","C","D","E","F","G","H","I","J","K","L","M",
            "N","O","P","Q","R","S","T","U","V","W","X","Y","Z">>
Digits == <<"0","1","2","3","4","5","6","7","8","9">>

Range(s) == {s[i] : i \in DOMAIN s}

LowerSet == Range(Lowers)
UpperSet == Range(Uppers)
DigitSet == Range(Digits)
LetterSet == LowerSet \cup UpperSet
AlnumSet == LetterSet \cup DigitSet

\* joi alphanum(): [a-zA-Z0-9]
IsAlnumChar(c) == c \in AlnumSet

\* regex \w: [A-Za-z0-9_]
IsWordChar(c) == IsAlnumChar(c) \/ c = "_"

\* regex \s (the white space the inputs use)
IsSpaceChar(c) == c = " "

\* one character of String.prototype.toLowerCase
LowerChar(c) ==
   IF c \in UpperSet
      THEN Lowers[CHOOSE i \in DOMAIN Uppers : Uppers[i] = c]
      ELSE c

\* String.prototype.toLowerCase
toLowerCase(s) == [i \in 1..Len(s) |-> LowerChar(s[i])]

\* String.prototype.includes
includes(s, sub) ==
   \E i \in 0..(Len(s) - Len(sub)) : SubSeq(s, i + 1, i + Len(sub)) = sub

\* String.prototype.endsWith
endsWith(s, suffix) ==
   /\ Len(suffix) <= Len(s)
   /\ \A i \in 1..Len(suffix) : s[Len(s) - Len(suffix) + i] = suffix[i]

\* String.prototype.startsWith (prefix listing of the bucket)
startsWith(s, prefix) ==
   /\ Len(prefix) <= Len(s)
   /\ \A i \in 1..Len(prefix) : s[i] = prefix[i]

\* positions of the character c in s
Positions(s, c) == {i \in 1..Len(s) : s[i] = c}

\* position of the last c in s, 0 when there is none
LastIndexOf(s, c) ==
   IF Positions(s, c) = {} THEN 0
   ELSE CHOOSE i \in Positions(s, c) : \A j \in Positions(s, c) : j <= i

\* position of the first c in s, 0 when there is none
IndexOf(s, c) ==
   IF Positions(s, c) = {} THEN 0
   ELSE CHOOSE i \in Positions(s, c) : \A j \in Positions(s, c) : i <= j

RECURSIVE split(_, _)
\* String.prototype.split with a one-character separator: always at least
\* one piece, empty pieces are kept
split(s, c) ==
   IF IndexOf(s, c) = 0 THEN <<s>>
   ELSE <<SubSeq(s, 1, IndexOf(s, c) - 1)>>
           \o split(SubSeq(s, IndexOf(s, c) + 1, Len(s)), c)

RECURSIVE join(_, _)
\* Array.prototype.join with a one-character separator (how a caller builds
\* the comma-separated tags query parameter)
join(pieces, c) ==
   IF Len(pieces) = 0 THEN <<>>
   ELSE IF Len(pieces) = 1 THEN pieces[1]
   ELSE pieces[1] \o <<c>> \o join(Tail(pieces), c)

\* a string of n copies of the character c
Rep(c, n) == [i \in 1..n |-> c]

(***************************************************************************)
(* JSON values.                                                            *)
(***************************************************************************)
Undefined == [t |-> "undefined"]
Null == [t |-> "null"]
Str(s) == [t |-> "string", v |-> s]
Bool(b) == [t |-> "boolean", v |-> b]
Num(n) == [t |-> "number", v |-> n]
Arr(a) == [t |-> "array", v |-> a]
Obj(o) == [t |-> "object", v |-> o]

IsNull(x) == x.t = "null"
IsStr(x) == x.t = "string"

\* JavaScript truthiness of a value: if (tags), if (city)
Truthy(x) ==
   CASE x.t = "undefined" -> FALSE
     [] x.t = "null" -> FALSE
     [] x.t = "string" -> Len(x.v) > 0
     [] x.t = "boolean" -> x.v
     [] x.t = "number" -> x.v # 0
     [] OTHER -> TRUE

(***************************************************************************)
(* joi schema rules.  A rule is a predicate on a JSON value; the email and *)
(* uri rules follow the shape joi checks (one @ and a dotted domain; a     *)
(* scheme followed by a colon).                                            *)
(***************************************************************************)
\* joi.string(): a string, and not the empty one
JoiString(x) == x.t = "string" /\ Len(x.v) > 0

\* joi.string().alphanum().length(n)
JoiAlphanumLength(x, n) ==
   /\ JoiString(x)
   /\ Len(x.v) = n
   /\ \A i \in 1..Len(x.v) : IsAlnumChar(x.v[i])

\* joi.string().email()
JoiEmail(x) ==
   /\ JoiString(x)
   /\ Cardinality(Positions(x.v, "@")) = 1
   /\ IndexOf(x.v, "@") > 1
   /\ LET domain == SubSeq(x.v, IndexOf(x.v, "@") + 1, Len(x.v))
          labels == split(domain, ".")
      IN  /\ Len(labels) >= 2
          /\ \A i \in 1..Len(labels) :
                /\ Len(labels[i]) > 0
                /\ \A j \in 1..Len(labels[i]) : IsAlnumChar(labels[i][j])

\* joi.string().uri()
JoiUri(x) ==
   /\ JoiString(x)
   /\ IndexOf(x.v, ":") > 1
   /\ x.v[1] \in LetterSet
   /\ \A i \in 1..(IndexOf(x.v, ":") - 1) :
         IsAlnumChar(x.v[i]) \/ x.v[i] \in {"+", "-", "."}
   /\ \A i \in 1..Len(x.v) : ~IsSpaceChar(x.v[i])

\* joi.boolean(): a boolean, or (joi converts by default) the strings
\* true / false in any letter case
JoiBoolean(x) ==
   \/ x.t = "boolean"
   \/ /\ x.t = "string"
      /\ toLowerCase(x.v) \in {<<"t","r","u","e">>, <<"f","a","l","s","e">>}

\* joi.number().integer().min(0)
JoiIntegerMin0(x) == x.t = "number" /\ x.v \in Int /\ x.v >= 0

\* joi.object()
JoiObject(x) == x.t = "object"

\* regex /^\d{2}:\d{2}$/
IsHHMM(s) ==
   /\ Len(s) = 5
   /\ s[3] = ":"
   /\ \A i \in {1, 2, 4, 5} : s[i] \in DigitSet

\* regex /^\w+(?:\s+\w+)*$/ : words separated by white space, no white
\* space at either end
IsWords(s) ==
   /\ Len(s) > 0
   /\ \A i \in 1..Len(s) : IsWordChar(s[i]) \/ IsSpaceChar(s[i])
   /\ IsWordChar(s[1])
   /\ IsWordChar(s[Len(s)])

daysOfWeek == {
   <<"S","u","n","d","a","y">>,
   <<"M","o","n","d","a","y">>,
   <<"T","u","e","s","d","a","y">>,
   <<"W","e","d","n","e","s","d","a","y">>,
   <<"T","h","u","r","s","d","a","y">>,
   <<"F","r","i","d","a","y">>,
   <<"S","a","t","u","r","d","a","y">>}

\* daySchema of isBusiness
daySchema(x) ==
   /\ x.t = "object"
   /\ DOMAIN x.v = {"day", "isOpen", "commence", "finish"}
   /\ JoiString(x.v.day) /\ x.v.day.v \in daysOfWeek
   /\ JoiBoolean(x.v.isOpen)
   /\ IsNull(x.v.commence) \/ (JoiString(x.v.commence) /\ IsHHMM(x.v.commence.v))
   /\ IsNull(x.v.finish) \/ (JoiString(x.v.finish) /\ IsHHMM(x.v.finish.v))

\* a tags rule that takes every array of strings
JoiTagIdsAnyText(x) ==
   \/ IsNull(x)
   \/ /\ x.t = "array"
      /\ \A i \in 1..Len(x.v) : x.v[i].t = "string"

\* joi.array().items(joi.string().alphanum().length(20)).allow(null)
JoiTagIds(x) ==
   \/ IsNull(x)
   \/ /\ x.t = "array"
      /\ \A i \in 1..Len(x.v) : JoiAlphanumLength(x.v[i], IdLen)

BusinessFields ==
   {"name", "description", "tags", "phoneNumber", "phoneNumberSecondary",
    "email", "website", "address", "city", "isFeatured", "timeTable",
    "appointments", "featuredImageURL"}

\* body[key] in JavaScript: undefined when the object has no such key
Field(o, k) == IF k \in DOMAIN o THEN o[k] ELSE Undefined

\* joi.object({...}) rejects a key the schema does not name
KnownKeys(o, keys) == DOMAIN o \subseteq keys

\* a timeTable rule without unique(): two entries may name the same day
JoiTimeTableRepeats(x) ==
   /\ x.t = "array"
   /\ \A i \in 1..Len(x.v) : daySchema(x.v[i])

\* timeTable: joi.array().items(daySchema).unique((a, b) => a.day === b.day)
JoiTimeTable(x) ==
   /\ x.t = "array"
   /\ \A i \in 1..Len(x.v) : daySchema(x.v[i])
   /\ \A i, j \in 1..Len(x.v) : i # j => x.v[i].v.day # x.v[j].v.day

\* isBusiness: the request body against the business schema; every key is
\* required(), so an absent (undefined) field fails its rule
isBusiness(business) ==
   /\ KnownKeys(business, BusinessFields)
   /\ JoiString(Field(business, "name"))
   /\ IsNull(Field(business, "description")) \/ JoiString(Field(business, "description"))
   /\ JoiTagIds(Field(business, "tags"))
   /\ IsNull(Field(business, "phoneNumber")) \/ JoiString(Field(business, "phoneNumber"))
   /\ IsNull(Field(business, "phoneNumberSecondary"))
         \/ JoiString(Field(business, "phoneNumberSecondary"))
   /\ IsNull(Field(business, "email")) \/ JoiEmail(Field(business, "email"))
   /\ IsNull(Field(business, "website")) \/ JoiUri(Field(business, "website"))
   /\ IsNull(Field(business, "address")) \/ JoiString(Field(business, "address"))
   /\ IsNull(Field(business, "city")) \/ JoiString(Field(business, "city"))
   /\ JoiBoolean(Field(business, "isFeatured"))
   /\ JoiTimeTable(Field(business, "timeTable"))
   /\ JoiObject(Field(business, "appointments"))
   /\ IsNull(Field(business, "featuredImageURL"))
         \/ JoiUri(Field(business, "featuredImageURL"))

\* length of a user id: joi.string().alphanum().length(28)
UserIdLen == 28

PostFields ==
   {"title", "content", "tags", "isFeatured", "featuredImageURL",
    "timestamp", "authorId"}

\* isPost: the request body against the post schema
isPost(post) ==
   /\ KnownKeys(post, PostFields)
   /\ JoiString(Field(post, "title"))
   /\ IsNull(Field(post, "content")) \/ JoiString(Field(post, "content"))
   /\ JoiTagIds(Field(post, "tags"))
   /\ JoiBoolean(Field(post, "isFeatured"))
   /\ IsNull(Field(post, "featuredImageURL")) \/ JoiUri(Field(post, "featuredImageURL"))
   /\ JoiIntegerMin0(Field(post, "timestamp"))
   /\ JoiAlphanumLength(Field(post, "authorId"), UserIdLen)

\* isTag: the request body against the tag schema
isTag(tag) ==
   /\ KnownKeys(tag, {"name"})
   /\ JoiString(Field(tag, "name"))
   /\ IsWords(Field(tag, "name").v)

\* isCollectionId: a 20-character alphanumeric string
isCollectionId(collectionId) == JoiAlphanumLength(collectionId, IdLen)

\* isFilePath: /^(?:[a-zA-Z]:)?[\\/](?:[^\\/]+[\\/])*[^\\/]+$/
isFilePath(filePath) ==
   /\ filePath.t = "string"
   /\ LET s == filePath.v
          hasDrive == /\ Len(s) >= 2
                      /\ s[1] \in LetterSet
                      /\ s[2] = ":"
          rest == IF hasDrive THEN SubSeq(s, 3, Len(s)) ELSE s
          IsSep(c) == c \in {"/", "\\"}
      IN  /\ Len(rest) >= 2
          /\ IsSep(rest[1])
          /\ ~IsSep(rest[Len(rest)])
          /\ \A i \in 1..(Len(rest) - 1) : ~(IsSep(rest[i]) /\ IsSep(rest[i + 1]))

UserFields ==
   {"email", "password", "firstName", "lastName", "phoneNumber", "street",
    "city", "zipCode", "country", "photoURL", "role"}

RoleAdministrator ==
   Str(<<"a", "d", "m", "i", "n", "i", "s", "t", "r", "a", "t", "o", "r">>)
RoleUser == Str(<<"u", "s", "e", "r">>)

\* isUser: the request body against the user schema; password and role are
\* not required()
isUser(user) ==
   /\ KnownKeys(user, UserFields)
   /\ JoiEmail(Field(user, "email"))
   /\ Field(user, "password") = Undefined \/ JoiString(Field(user, "password"))
   /\ JoiString(Field(user, "firstName"))
   /\ IsNull(Field(user, "lastName")) \/ JoiString(Field(user, "lastName"))
   /\ IsNull(Field(user, "phoneNumber")) \/ JoiString(Field(user, "phoneNumber"))
   /\ IsNull(Field(user, "street")) \/ JoiString(Field(user, "street"))
   /\ IsNull(Field(user, "city")) \/ JoiString(Field(user, "city"))
   /\ IsNull(Field(user, "zipCode")) \/ Field(user, "zipCode").t = "number"
   /\ IsNull(Field(user, "country")) \/ JoiString(Field(user, "country"))
   /\ IsNull(Field(user, "photoURL")) \/ JoiUri(Field(user, "photoURL"))
   /\ Field(user, "role") \in {Undefined, RoleAdministrator, RoleUser}

(***************************************************************************)
(* State.                                                                  *)
(***************************************************************************)
VARIABLES
   firestore,   \* the document store: collection -> (document id -> document)
   nextId,      \* number of auto ids the document store has handed out
   bucket,      \* the object store: the set of object names
   reqs,        \* the requests in flight that take several steps, one per
                \* slot
   last,        \* the response sent last
   users,       \* the accounts of the authentication service with the role
                \* of their user-meta document
   currentUser  \* firebase.auth().currentUser of the client SDK, one per
                \* process

vars == <<firestore, nextId, bucket, reqs, last, users, currentUser>>

Collections == {"business", "post", "business-tag", "post-tag"}

\* the n-th auto-generated document id of firestore.collection(c).add()
autoId(n) == Rep(Lowers[n], IdLen)

DocIds == {autoId(n) : n \in 1..MaxDocs}

\* error messages of the handlers and of the stores
MsgParam == "The request parameter provided is not valid or acceptable."
MsgBody == "The request body provided is not valid or acceptable."
MsgQuery == "The query parameters provided are not valid or acceptable."
MsgNotFound == "The requested resources could not be found."
MsgNoDocument == "No document to update"
MsgStore == "store error"
MsgTypeError == "Cannot read properties of undefined"

(***************************************************************************)
(* Inputs the requests are drawn from.                                     *)
(***************************************************************************)
\* two tag ids (20 alphanumeric characters); no tag document has to exist
TagX == Rep("x", IdLen)
TagY == Rep("y", IdLen)

Business1 ==
   [name |-> Str(<<"A", "b">>), description |-> Null,
    tags |-> Arr(<<Str(TagX)>>), phoneNumber |-> Null,
    phoneNumberSecondary |-> Null, email |-> Null, website |-> Null,
    address |-> Null, city |-> Str(<<"p">>), isFeatured |-> Bool(FALSE),
    timeTable |-> Arr(<<>>),
    appointments |-> Obj([a |-> Num(1), b |-> Num(2)]),
    featuredImageURL |-> Null]

Business2 ==
   [Business1 EXCEPT !.name = Str(<<"b">>), !.city = Str(<<"P">>),
                     !.tags = Arr(<<Str(TagX), Str(TagY)>>),
                     !.appointments = Obj([a |-> Num(1)])]

Business3 ==
   [Business1 EXCEPT !.name = Str(<<"a", "B">>), !.city = Null,
                     !.tags = Null, !.appointments = Obj([b |-> Num(2)])]

\* a body without the keys tags, city and appointments
BusinessPartial ==
   [k \in BusinessFields \ {"tags", "city", "appointments"} |-> Business2[k]]

\* a body with a key the schema does not know
BusinessExtra == Business1 @@ ("owner" :> Str(<<"o">>))

BusinessBodies ==
   {Business1, Business2, Business3, BusinessPartial, BusinessExtra}

Post1 ==
   [title |-> Str(<<"T">>), content |-> Null, tags |-> Arr(<<Str(TagX)>>),
    isFeatured |-> Bool(TRUE), featuredImageURL |-> Null,
    timestamp |-> Num(0), authorId |-> Str(Rep("u", UserIdLen))]

Post2 == [Post1 EXCEPT !.tags = Null, !.content = Str(<<"c">>)]

\* a body without the keys tags and content
PostPartial == [k \in PostFields \ {"tags", "content"} |-> Post2[k]]

PostBodies == {Post1, Post2, PostPartial}

Tag1 == [name |-> Str(<<"f", "o", "o", "d">>)]
Tag2 == [name |-> Str(<<"a", " ", "b">>)]
TagBad == [name |-> Str(<<" ", "a">>)]

TagBodies == {Tag1, Tag2, TagBad}

\* values of the :id route parameter: every id the store can hand out, an id
\* that is too short and an id with a character that is not alphanumeric
IdParams ==
   {Str(id) : id \in DocIds}
      \cup {Str(Rep("a", IdLen - 1)), Str(Rep("a", IdLen - 1) \o <<"-">>)}

\* the candidate inputs their validator accepts
AcceptedBusinessBodies == {body \in BusinessBodies : isBusiness(body)}
AcceptedPostBodies == {body \in PostBodies : isPost(body)}
AcceptedTagBodies == {body \in TagBodies : isTag(body)}
\* every candidate id taken as well-formed
AcceptedIdParamsAll == IdParams

AcceptedIdParams == {id \in IdParams : isCollectionId(id)}

(***************************************************************************)
(* The document store (Firestore client SDK).                              *)
(***************************************************************************)
\* collection(c).add(data): a new document under a fresh id
FsAdd(c, id, data) ==
   LET docs == firestore[c]
   IN  [firestore EXCEPT ![c] =
          [d \in DOMAIN docs \cup {id} |-> IF d = id THEN data ELSE docs[d]]]

\* update as a deep merge: an object field keeps the keys data does not name
FsMergeDeep(old, data) ==
   [k \in DOMAIN old \cup DOMAIN data |->
      IF k \notin DOMAIN data THEN old[k]
      ELSE IF k \in DOMAIN old /\ old[k].t = "object" /\ data[k].t = "object"
         THEN Obj([f \in DOMAIN old[k].v \cup DOMAIN data[k].v |->
                     IF f \in DOMAIN data[k].v THEN data[k].v[f]
                     ELSE old[k].v[f]])
      ELSE data[k]]

\* update that appends to an array field instead of replacing it
FsMergeAppend(old, data) ==
   [k \in DOMAIN old \cup DOMAIN data |->
      IF k \notin DOMAIN data THEN old[k]
      ELSE IF k \in DOMAIN old /\ old[k].t = "array" /\ data[k].t = "array"
         THEN Arr(old[k].v \o data[k].v)
      ELSE data[k]]

\* what doc(id).update(data) leaves in the document: the fields of data are
\* written, every other field of the document is kept
FsMerge(old, data) ==
   [k \in DOMAIN old \cup DOMAIN data |->
      IF k \in DOMAIN data THEN data[k] ELSE old[k]]

\* collection(c).doc(id).update(data), for a document that exists
FsUpdate(c, id, data) ==
   [firestore EXCEPT ![c][id] = FsMerge(firestore[c][id], data)]

\* a delete that leaves the document where it is
FsDeleteKeeps(c, id) == firestore

\* a delete that also takes the tags array from every document that refers
\* to the deleted id
FsDeleteCascade(c, id) ==
   [k \in Collections |->
      IF k = c
         THEN [d \in DOMAIN firestore[k] \ {id} |-> firestore[k][d]]
      ELSE [d \in DOMAIN firestore[k] |->
              LET doc == firestore[k][d]
              IN  IF /\ "tags" \in DOMAIN doc
                     /\ doc.tags.t = "array"
                     /\ \E i \in 1..Len(doc.tags.v) : doc.tags.v[i].v = id
                     THEN [doc EXCEPT !.tags = Null]
                  ELSE doc]]

\* collection(c).doc(id).delete(): succeeds also when there is no document
FsDelete(c, id) ==
   LET docs == firestore[c]
   IN  [firestore EXCEPT ![c] = [d \in DOMAIN docs \ {id} |-> docs[d]]]

(***************************************************************************)
(* Users: the accounts of the authentication service and the user the      *)
(* client SDK of this process is signed in as.                             *)
(***************************************************************************)
\* firebase.auth().currentUser when nobody is signed in
NoUser == Null

\* the uid the authentication service gives the account of an email (one
\* account per email)
Uid(email) == Rep(email[1], UserIdLen)

\* the email address of the user c
UserEmail(c) == <<c, "@", "d", ".", "e">>

\* the password of every account
Password == Str(<<"p">>)

\* the account with its user-meta document that the deployment starts with:
\* no request creates an administrator unless one is signed in
RootEmail == UserEmail("r")

\* an account: its password and the role of its user-meta document
\* (Undefined while it has no such document)
Account(password, role) == [password |-> password, role |-> role]

(***************************************************************************)
(* Responses.                                                              *)
(***************************************************************************)
Idle == [pc |-> "idle"]

NoneInFlight == \A r \in DOMAIN reqs : reqs[r].pc = "idle"

\* a request that ran while a remove request was in flight
Disturb(rs) ==
   [r \in DOMAIN rs |->
      IF rs[r].pc = "idle" THEN rs[r] ELSE [rs[r] EXCEPT !.alone = FALSE]]

\* response.status(status).json(...) of the handler op; repeat tells that
\* the request before it was the same request
Response(op, coll, id, input, status, error, result, fault, alone) ==
   [op |-> op, coll |-> coll, id |-> id, input |-> input,
    status |-> status, error |-> error, result |-> result, fault |-> fault,
    alone |-> alone,
    repeat |-> last.op = op /\ last.id = id /\ last.input = input]

\* a handler that runs from request to response in one step
Respond(op, coll, id, input, status, error, result, fault) ==
   /\ last' = Response(op, coll, id, input, status, error, result, fault,
                       NoneInFlight)
   /\ reqs' = Disturb(reqs)
   /\ UNCHANGED <<users, currentUser>>

Init ==
   /\ firestore = [c \in Collections |-> [d \in {} |-> Null]]
   /\ nextId = 0
   /\ bucket = {}
   /\ reqs = [r \in 1..MaxInFlight |-> Idle]
   /\ last = [op |-> "none", coll |-> "none", id |-> Undefined,
              input |-> Undefined, status |-> 0, error |-> "none",
              result |-> Undefined, fault |-> FALSE, alone |-> TRUE,
              repeat |-> FALSE]
   /\ users = (Uid(RootEmail) :> Account(Password, RoleAdministrator))
   /\ currentUser = NoUser

(***************************************************************************)
(* create / update of businesses, posts and tags.                          *)
(***************************************************************************)
\* addNewBusiness, addNewPost, addNewBusinessTag, addNewPostTag
AddNew(op, coll, valid, body) ==
   \/ /\ ~valid
      /\ Respond(op, coll, Undefined, body, 400, MsgBody, Null, FALSE)
      /\ UNCHANGED <<firestore, nextId, bucket>>
   \/ /\ valid
      /\ Respond(op, coll, Undefined, body, 400, MsgStore, Null, TRUE)
      /\ UNCHANGED <<firestore, nextId, bucket>>
   \/ /\ valid
      /\ nextId < MaxDocs
      /\ firestore' = FsAdd(coll, autoId(nextId + 1), body)
      /\ nextId' = nextId + 1
      /\ Respond(op, coll, Undefined, body, 200, "none",
                 Str(autoId(nextId + 1)), FALSE)
      /\ UNCHANGED bucket

\* an update written as doc(id).set(data, { merge: true }): a document that
\* is not there is created
UpdateUpsert(op, coll, id, valid, body) ==
   \/ /\ id \notin AcceptedIdParams
      /\ Respond(op, coll, id, body, 400, MsgParam, Null, FALSE)
      /\ UNCHANGED <<firestore, nextId, bucket>>
   \/ /\ id \in AcceptedIdParams
      /\ ~valid
      /\ Respond(op, coll, id, body, 400, MsgBody, Null, FALSE)
      /\ UNCHANGED <<firestore, nextId, bucket>>
   \/ /\ id \in AcceptedIdParams
      /\ valid
      /\ Respond(op, coll, id, body, 400, MsgStore, Null, TRUE)
      /\ UNCHANGED <<firestore, nextId, bucket>>
   \/ /\ id \in AcceptedIdParams
      /\ valid
      /\ firestore' = IF id.v \in DOMAIN firestore[coll]
                         THEN FsUpdate(coll, id.v, body)
                         ELSE FsAdd(coll, id.v, body)
      /\ Respond(op, coll, id, body, 200, "none", Null, FALSE)
      /\ UNCHANGED <<nextId, bucket>>

\* updateBusiness, updatePost, updateBusinessTag, updatePostTag
Update(op, coll, id, valid, body) ==
   \/ /\ id \notin AcceptedIdParams
      /\ Respond(op, coll, id, body, 400, MsgParam, Null, FALSE)
      /\ UNCHANGED <<firestore, nextId, bucket>>
   \/ /\ id \in AcceptedIdParams
      /\ ~valid
      /\ Respond(op, coll, id, body, 400, MsgBody, Null, FALSE)
      /\ UNCHANGED <<firestore, nextId, bucket>>
   \/ /\ id \in AcceptedIdParams
      /\ valid
      /\ Respond(op, coll, id, body, 400, MsgStore, Null, TRUE)
      /\ UNCHANGED <<firestore, nextId, bucket>>
   \/ /\ id \in AcceptedIdParams
      /\ valid
      /\ id.v \notin DOMAIN firestore[coll]
      /\ Respond(op, coll, id, body, 400, MsgNoDocument, Null, FALSE)
      /\ UNCHANGED <<firestore, nextId, bucket>>
   \/ /\ id \in AcceptedIdParams
      /\ valid
      /\ id.v \in DOMAIN firestore[coll]
      /\ firestore' = FsUpdate(coll, id.v, body)
      /\ Respond(op, coll, id, body, 200, "none", Null, FALSE)
      /\ UNCHANGED <<nextId, bucket>>

addNewBusiness ==
   \E body \in BusinessBodies :
      AddNew("addNewBusiness", "business", body \in AcceptedBusinessBodies, body)

updateBusiness ==
   \E id \in IdParams, body \in BusinessBodies :
      Update("updateBusiness", "business", id, body \in AcceptedBusinessBodies, body)

addNewPost ==
   \E body \in PostBodies : AddNew("addNewPost", "post", body \in AcceptedPostBodies, body)

updatePost ==
   \E id \in IdParams, body \in PostBodies :
      Update("updatePost", "post", id, body \in AcceptedPostBodies, body)

addNewBusinessTag ==
   \E body \in TagBodies :
      AddNew("addNewBusinessTag", "business-tag", body \in AcceptedTagBodies, body)

updateBusinessTag ==
   \E id \in IdParams, body \in TagBodies :
      Update("updateBusinessTag", "business-tag", id, body \in AcceptedTagBodies, body)

addNewPostTag ==
   \E body \in TagBodies :
      AddNew("addNewPostTag", "post-tag", body \in AcceptedTagBodies, body)

updatePostTag ==
   \E id \in IdParams, body \in TagBodies :
      Update("updatePostTag", "post-tag", id, body \in AcceptedTagBodies, body)

\* deleteBusinessTag, deletePostTag
DeleteTag(op, coll, id) ==
   \/ /\ id \notin AcceptedIdParams
      /\ Respond(op, coll, id, Undefined, 400, MsgParam, Null, FALSE)
      /\ UNCHANGED <<firestore, nextId, bucket>>
   \/ /\ id \in AcceptedIdParams
      /\ Respond(op, coll, id, Undefined, 400, MsgStore, Null, TRUE)
      /\ UNCHANGED <<firestore, nextId, bucket>>
   \/ /\ id \in AcceptedIdParams
      /\ firestore' = FsDelete(coll, id.v)
      /\ Respond(op, coll, id, Undefined, 200, "none", Null, FALSE)
      /\ UNCHANGED <<nextId, bucket>>

deleteBusinessTag ==
   \E id \in IdParams : DeleteTag("deleteBusinessTag", "business-tag", id)

deletePostTag ==
   \E id \in IdParams : DeleteTag("deletePostTag", "post-tag", id)

\* the create and update handlers
NextDoc ==
   \/ addNewBusiness
   \/ updateBusiness
   \/ addNewPost
   \/ updatePost
   \/ addNewPostTag
   \/ updatePostTag

SpecDoc == Init /\ [][NextDoc]_vars

(***************************************************************************)
(* Search: getMatchingBusinesses and getPostsByTag.                        *)
(***************************************************************************)
\* values of the query parameters name, city and tags; Undefined is a
\* parameter the request does not carry
NameParams == {Undefined, Str(<<>>), Str(<<"b">>), Str(<<"B">>)}
CityParams == {Undefined, Str(<<>>), Str(<<"P">>)}
TagsParams ==
   {Undefined, Str(<<>>), Str(join(<<TagX, TagY>>, ",")),
    Str(join(<<TagY, <<>>>>, ","))}

BusinessQueries == [name : NameParams, city : CityParams, tags : TagsParams]
PostQueries == [tags : TagsParams]

\* tags.split(','): the pieces as an array of strings
SplitTags(tags) ==
   LET pieces == split(tags.v, ",")
   IN  Arr([i \in 1..Len(pieces) |-> Str(pieces[i])])

\* joi.string().allow(null, "").required()
JoiOptionalString(x) == x.t = "null" \/ x.t = "string"

\* joi.array().items(joi.string()).allow(null, "").required()
JoiOptionalStrings(x) ==
   \/ x.t = "null"
   \/ x.t = "string" /\ Len(x.v) = 0
   \/ /\ x.t = "array"
      /\ \A i \in 1..Len(x.v) : JoiString(x.v[i])

\* isSearchParameters of the business controller: a truthy tags string is
\* split first, then the three keys are checked, each of them required()
isSearchParameters(searchParams) ==
   LET tags == IF Truthy(searchParams.tags)
                  THEN SplitTags(searchParams.tags)
                  ELSE searchParams.tags
   IN  /\ JoiOptionalString(searchParams.name)
       /\ JoiOptionalString(searchParams.city)
       /\ JoiOptionalStrings(tags)

\* isSearchParameters of the post controller
isSearchParametersPost(searchParams) ==
   LET tags == IF Truthy(searchParams.tags)
                  THEN SplitTags(searchParams.tags)
                  ELSE searchParams.tags
   IN  JoiOptionalStrings(tags)

AcceptedBusinessQueries == {q \in BusinessQueries : isSearchParameters(q)}
AcceptedPostQueries == {q \in PostQueries : isSearchParametersPost(q)}

\* the filter as a conjunction: the field holds every one of the values
ArrayContainsAll(fieldValue, values) ==
   /\ fieldValue.t = "array"
   /\ \A j \in 1..Len(values.v) :
         \E i \in 1..Len(fieldValue.v) : fieldValue.v[i] = values.v[j]

\* where(field, "array-contains-any", values): the field is an array that
\* holds at least one of the values
ArrayContainsAny(fieldValue, values) ==
   /\ fieldValue.t = "array"
   /\ \E i \in 1..Len(fieldValue.v), j \in 1..Len(values.v) :
         fieldValue.v[i] = values.v[j]

\* where(field, "==", value)
FieldEquals(fieldValue, value) == fieldValue = value

\* the documents businessQuery.get() yields: the tags filter when tags is
\* truthy, the city filter (on the lower-cased criterion) when city is truthy
BusinessCandidates(q) ==
   {id \in DOMAIN firestore["business"] :
      LET doc == firestore["business"][id]
      IN  /\ Truthy(q.tags) =>
                ArrayContainsAny(Field(doc, "tags"), SplitTags(q.tags))
          /\ Truthy(q.city) =>
                FieldEquals(Field(doc, "city"), Str(toLowerCase(q.city.v)))}

\* the test without lower-casing the criterion
NameMatchesExactCase(doc, name) ==
   includes(toLowerCase(Field(doc, "name").v), name.v)

\* the test of the forEach loop: the lower-cased stored name includes the
\* lower-cased criterion
NameMatches(doc, name) ==
   includes(toLowerCase(Field(doc, "name").v), toLowerCase(name.v))

\* the response body of a search: one entry { id, data } per document kept,
\* the data being the stored document of that id
Docs(coll, ids) == [t |-> "docs", v |-> ids]

\* getMatchingBusinesses for the query q
MatchingBusinesses(q) ==
   \/ /\ q \notin AcceptedBusinessQueries
      /\ Respond("getMatchingBusinesses", "business", Undefined, q,
                 400, MsgQuery, Null, FALSE)
      /\ UNCHANGED <<firestore, nextId, bucket>>
   \/ /\ q \in AcceptedBusinessQueries
      /\ Respond("getMatchingBusinesses", "business", Undefined, q,
                 400, MsgStore, Null, TRUE)
      /\ UNCHANGED <<firestore, nextId, bucket>>
   \/ /\ q \in AcceptedBusinessQueries
      /\ LET cands == BusinessCandidates(q)
         IN  IF cands # {} /\ q.name.t # "string"
                THEN Respond("getMatchingBusinesses", "business",
                             Undefined, q, 400, MsgTypeError, Null, FALSE)
                ELSE Respond("getMatchingBusinesses", "business",
                             Undefined, q, 200, "none",
                             Docs("business",
                                  {id \in cands :
                                     NameMatches(firestore["business"][id],
                                                 q.name)}),
                             FALSE)
      /\ UNCHANGED <<firestore, nextId, bucket>>

getMatchingBusinesses ==
   \E q \in BusinessQueries : MatchingBusinesses(q)

\* the documents postQuery.get() yields: tags.split(',') is always applied
PostCandidates(q) ==
   {id \in DOMAIN firestore["post"] :
      ArrayContainsAny(Field(firestore["post"][id], "tags"), SplitTags(q.tags))}

\* getPostsByTag for the query q
PostsByTag(q) ==
   \/ /\ q \notin AcceptedPostQueries
      /\ Respond("getPostsByTag", "post", Undefined, q,
                 400, MsgQuery, Null, FALSE)
      /\ UNCHANGED <<firestore, nextId, bucket>>
   \/ /\ q \in AcceptedPostQueries
      /\ Respond("getPostsByTag", "post", Undefined, q,
                 400, MsgStore, Null, TRUE)
      /\ UNCHANGED <<firestore, nextId, bucket>>
   \/ /\ q \in AcceptedPostQueries
      /\ IF q.tags.t # "string"
            THEN Respond("getPostsByTag", "post", Undefined, q,
                         400, MsgTypeError, Null, FALSE)
            ELSE Respond("getPostsByTag", "post", Undefined, q, 200,
                         "none", Docs("post", PostCandidates(q)), FALSE)
      /\ UNCHANGED <<firestore, nextId, bucket>>

getPostsByTag ==
   \E q \in PostQueries : PostsByTag(q)

\* the create and search handlers of businesses and posts
NextSearch ==
   \/ addNewBusiness
   \/ addNewPost
   \/ getMatchingBusinesses
   \/ getPostsByTag

SpecSearch == Init /\ [][NextSearch]_vars

(***************************************************************************)
(* Media folders: path functions of Node (POSIX) and the storage helpers.  *)
(***************************************************************************)
\* the characters of the model in ASCII order (object listings are sorted by
\* name)
Ascii ==
   <<" ", "+", ",", "-", ".", "/">> \o Digits \o <<":", "@">> \o Uppers
      \o <<"\\", "_">> \o Lowers

CharCode(c) == CHOOSE i \in DOMAIN Ascii : Ascii[i] = c

\* the first position at which a and b differ (one past the shorter one when
\* one is a prefix of the other)
FirstDifference(a, b) ==
   LET short == IF Len(a) <= Len(b) THEN Len(a) ELSE Len(b)
   IN  CHOOSE k \in 1..(short + 1) :
          /\ k = short + 1 \/ a[k] # b[k]
          /\ \A j \in 1..(k - 1) : a[j] = b[j]

\* a sorts before b in a listing
NameLess(a, b) ==
   LET k == FirstDifference(a, b)
   IN  IF k > Len(a) THEN k <= Len(b)
       ELSE IF k > Len(b) THEN FALSE
       ELSE CharCode(a[k]) < CharCode(b[k])

\* path.basename(p) for a path that does not end with a slash
basename(p) == SubSeq(p, LastIndexOf(p, "/") + 1, Len(p))

\* path.extname(p): from the last dot of the base name on; empty when there
\* is no dot, when the last dot is the first character, and for ".."
extname(p) ==
   LET base == basename(p)
       dot == LastIndexOf(base, ".")
   IN  IF dot <= 1 \/ base = <<".", ".">> THEN <<>>
       ELSE SubSeq(base, dot, Len(base))

\* path.parse(p).name: the base name without its extension
parseName(p) ==
   LET base == basename(p)
   IN  SubSeq(base, 1, Len(base) - Len(extname(p)))

\* path.basename(p, ext): the base name, without ext when ext is not empty,
\* the base name ends with it and is longer than it
basenameExt(p, ext) ==
   LET base == basename(p)
   IN  IF Len(ext) > 0 /\ Len(ext) < Len(base) /\ endsWith(base, ext)
          THEN SubSeq(base, 1, Len(base) - Len(ext))
          ELSE base

FeatSuffix == <<"-", "f", "e", "a", "t">>

UndefinedText == <<"u", "n", "d", "e", "f", "i", "n", "e", "d">>

\* the text a template literal prints for a value
TemplateText(x) == IF x.t = "string" THEN x.v ELSE UndefinedText

\* const [baseName, extension] = fileName.split('.');
\* `${baseName}-feat.${extension}`: the first two pieces of the split, the
\* second one undefined when the name has no dot
FeatFileName(localFilePath) ==
   LET pieces == split(basename(localFilePath), ".")
       baseName == Str(pieces[1])
       extension == IF Len(pieces) >= 2 THEN Str(pieces[2]) ELSE Undefined
   IN  TemplateText(baseName) \o FeatSuffix \o <<".">> \o TemplateText(extension)

BusinessText == <<"b", "u", "s", "i", "n", "e", "s", "s">>
PostText == <<"p", "o", "s", "t">>

\* the collection name as text of a folder path
CollText(coll) == IF coll = "business" THEN BusinessText ELSE PostText

\* `business/${businessId}` : the folder handed to uploadFileToFolder
UploadFolder(coll, id) == CollText(coll) \o <<"/">> \o id

\* `business/${businessId}/` : the folder handed to the lookups and to
\* deleteFilesInFolder
FolderPrefix(coll, id) == CollText(coll) \o <<"/">> \o id \o <<"/">>

\* the destination with no slash between folder and file name
RemoteFilePathNoSlash(folderPath, remoteFileName) == folderPath \o remoteFileName

\* `${folderPath}/${remoteFileName}` of uploadFileToFolder
RemoteFilePath(folderPath, remoteFileName) ==
   folderPath \o <<"/">> \o remoteFileName

\* bucket.getFiles({ prefix }): the objects whose name starts with prefix
getFiles(prefix) == {f \in bucket : startsWith(f, prefix)}

NoFile == <<>>

\* find that returns the last object that passes
FindLast(files) ==
   IF files = {} THEN NoFile
   ELSE CHOOSE f \in files : \A g \in files \ {f} : NameLess(g, f)

\* files.find(test) over a listing: the first object, in listing order, that
\* passes; NoFile (undefined) when none does
FindFirst(files) ==
   IF files = {} THEN NoFile
   ELSE CHOOSE f \in files : \A g \in files \ {f} : NameLess(f, g)

\* getFileURLWithSuffix: the file found by path.parse(file.name).name
FindWithSuffix(folderPath, suffix) ==
   FindFirst({f \in getFiles(folderPath) : endsWith(parseName(f), suffix)})

\* findFeatImageFile: the file found by
\* path.basename(file.name, path.extname(file.name))
FindFeatImage(folderPath) ==
   FindFirst({f \in getFiles(folderPath) :
                 endsWith(basenameExt(f, extname(f)), FeatSuffix)})

\* a test that takes every outcome of find for a file
FileFoundAlways(file) == TRUE

\* if (file) / if (!featImage): find has returned a file
FileFound(file) == file # NoFile

\* values of the :id route parameter of the featured-image requests: two
\* well-formed ids (the first one is the first id the document store hands
\* out) and an id with a character that is not alphanumeric
MediaIdParams ==
   {Str(Rep("a", IdLen)), Str(Rep("b", IdLen)), Str(Rep("a", IdLen - 1) \o <<"-">>)}

AcceptedMediaIdParams == {id \in MediaIdParams : isCollectionId(id)}

\* values of request.body.localFilePath
PathParams ==
   {Undefined,
    Str(<<"p", ".", "g">>),
    Str(<<"/", "p", ".", "g">>),
    Str(<<"/", "d", "/", "m", ".", "p", ".", "g">>),
    Str(<<"/", "p">>)}

AcceptedPathParams == {path \in PathParams : isFilePath(path)}

\* the remote file name of every accepted path
FeatFileNames ==
   {[path |-> path, name |-> FeatFileName(path.v)] : path \in AcceptedPathParams}

RemoteFileName(localFilePath) ==
   (CHOOSE e \in FeatFileNames : e.path = localFilePath).name

\* an upload that first reads the document of the id and fails when there
\* is none
UploadFeatImageOfStored(op, coll, id, localFilePath) ==
   \/ /\ id \notin AcceptedMediaIdParams
      /\ Respond(op, coll, id, localFilePath, 500, MsgParam, Null, FALSE)
      /\ UNCHANGED <<firestore, nextId, bucket>>
   \/ /\ id \in AcceptedMediaIdParams
      /\ localFilePath \notin AcceptedPathParams
      /\ Respond(op, coll, id, localFilePath, 500, MsgBody, Null, FALSE)
      /\ UNCHANGED <<firestore, nextId, bucket>>
   \/ /\ id \in AcceptedMediaIdParams
      /\ localFilePath \in AcceptedPathParams
      /\ Respond(op, coll, id, localFilePath, 500, MsgStore, Null, TRUE)
      /\ UNCHANGED <<firestore, nextId, bucket>>
   \/ /\ id \in AcceptedMediaIdParams
      /\ localFilePath \in AcceptedPathParams
      /\ id.v \notin DOMAIN firestore[coll]
      /\ Respond(op, coll, id, localFilePath, 500, MsgNoDocument, Null, FALSE)
      /\ UNCHANGED <<firestore, nextId, bucket>>
   \/ /\ id \in AcceptedMediaIdParams
      /\ localFilePath \in AcceptedPathParams
      /\ id.v \in DOMAIN firestore[coll]
      /\ LET remoteFilePath ==
                RemoteFilePath(UploadFolder(coll, id.v),
                               RemoteFileName(localFilePath))
         IN  /\ Cardinality(bucket \cup {remoteFilePath}) <= MaxObjects
             /\ bucket' = bucket \cup {remoteFilePath}
             /\ Respond(op, coll, id, localFilePath, 200, "none",
                        Str(remoteFilePath), FALSE)
      /\ UNCHANGED <<firestore, nextId>>

\* uploadBusinessFeatImage, uploadPostFeatImage (with uploadFileToFolder)
UploadFeatImage(op, coll, id, localFilePath) ==
   \/ /\ id \notin AcceptedMediaIdParams
      /\ Respond(op, coll, id, localFilePath, 500, MsgParam, Null, FALSE)
      /\ UNCHANGED <<firestore, nextId, bucket>>
   \/ /\ id \in AcceptedMediaIdParams
      /\ localFilePath \notin AcceptedPathParams
      /\ Respond(op, coll, id, localFilePath, 500, MsgBody, Null, FALSE)
      /\ UNCHANGED <<firestore, nextId, bucket>>
   \/ /\ id \in AcceptedMediaIdParams
      /\ localFilePath \in AcceptedPathParams
      /\ Respond(op, coll, id, localFilePath, 500, MsgStore, Null, TRUE)
      /\ UNCHANGED <<firestore, nextId, bucket>>
   \/ /\ id \in AcceptedMediaIdParams
      /\ localFilePath \in AcceptedPathParams
      /\ LET remoteFilePath ==
                RemoteFilePath(UploadFolder(coll, id.v),
                               RemoteFileName(localFilePath))
         IN  /\ Cardinality(bucket \cup {remoteFilePath}) <= MaxObjects
             /\ bucket' = bucket \cup {remoteFilePath}
             /\ Respond(op, coll, id, localFilePath, 200, "none",
                        Str(remoteFilePath), FALSE)
      /\ UNCHANGED <<firestore, nextId>>

uploadBusinessFeatImage ==
   \E id \in MediaIdParams, localFilePath \in PathParams :
      UploadFeatImage("uploadBusinessFeatImage", "business", id, localFilePath)

uploadPostFeatImage ==
   \E id \in MediaIdParams, localFilePath \in PathParams :
      UploadFeatImage("uploadPostFeatImage", "post", id, localFilePath)

\* getBusinessFeatImage, getPostFeatImage (with getFileURLWithSuffix): the
\* result of a success is the signed URL of the object found
GetFeatImage(op, coll, id) ==
   /\ UNCHANGED <<firestore, nextId, bucket>>
   /\ \/ /\ id \notin AcceptedMediaIdParams
         /\ Respond(op, coll, id, Undefined, 500, MsgParam, Null, FALSE)
      \/ /\ id \in AcceptedMediaIdParams
         /\ Respond(op, coll, id, Undefined, 500, MsgStore, Null, TRUE)
      \/ /\ id \in AcceptedMediaIdParams
         /\ LET file == FindWithSuffix(FolderPrefix(coll, id.v), FeatSuffix)
            IN  IF ~FileFound(file)
                   THEN Respond(op, coll, id, Undefined, 500, MsgNotFound,
                                Null, FALSE)
                ELSE IF file = NoFile
                   THEN Respond(op, coll, id, Undefined, 500, MsgTypeError,
                                Null, FALSE)
                ELSE Respond(op, coll, id, Undefined, 200, "none", Str(file),
                             FALSE)

getBusinessFeatImage ==
   \E id \in MediaIdParams : GetFeatImage("getBusinessFeatImage", "business", id)

getPostFeatImage ==
   \E id \in MediaIdParams : GetFeatImage("getPostFeatImage", "post", id)

\* deleteBusinessFeatImage, deletePostFeatImage (with findFeatImageFile):
\* the result of a success is the file handle that was deleted
DeleteFeatImage(op, coll, id) ==
   \/ /\ id \notin AcceptedMediaIdParams
      /\ Respond(op, coll, id, Undefined, 500, MsgParam, Null, FALSE)
      /\ UNCHANGED <<firestore, nextId, bucket>>
   \/ /\ id \in AcceptedMediaIdParams
      /\ Respond(op, coll, id, Undefined, 500, MsgStore, Null, TRUE)
      /\ UNCHANGED <<firestore, nextId, bucket>>
   \/ /\ id \in AcceptedMediaIdParams
      /\ LET featImage == FindFeatImage(FolderPrefix(coll, id.v))
         IN  IF ~FileFound(featImage)
                THEN /\ Respond(op, coll, id, Undefined, 500, MsgNotFound,
                                Null, FALSE)
                     /\ UNCHANGED bucket
             ELSE IF featImage = NoFile
                THEN /\ Respond(op, coll, id, Undefined, 500, MsgTypeError,
                                Null, FALSE)
                     /\ UNCHANGED bucket
             ELSE /\ bucket' = bucket \ {featImage}
                  /\ Respond(op, coll, id, Undefined, 200, "none",
                             Str(featImage), FALSE)
      /\ UNCHANGED <<firestore, nextId>>

deleteBusinessFeatImage ==
   \E id \in MediaIdParams :
      DeleteFeatImage("deleteBusinessFeatImage", "business", id)

deletePostFeatImage ==
   \E id \in MediaIdParams : DeleteFeatImage("deletePostFeatImage", "post", id)

\* the featured-image handlers of businesses and posts
NextMedia ==
   \/ uploadBusinessFeatImage
   \/ uploadPostFeatImage
   \/ getBusinessFeatImage
   \/ getPostFeatImage
   \/ deleteBusinessFeatImage
   \/ deletePostFeatImage

SpecMedia == Init /\ [][NextMedia]_vars

(***************************************************************************)
(* remove of a business or a post with the objects of its folder.  The     *)
(* handler awaits the document delete, then the listing of the folder,     *)
(* then Promise.all over one delete per listed object; other requests run  *)
(* between these steps.                                                    *)
(***************************************************************************)
RemoveOps == {"deleteBusinessAndFiles", "deletePostAndFiles"}

MsgNoObject == "No such object"

\* values of the :businessId / :postId route parameter of the remove and
\* upload requests of this scenario
RemoveIdParams == {Str(Rep("a", IdLen)), Str(Rep("a", IdLen - 1) \o <<"-">>)}

RemovePathParams ==
   {Undefined, Str(<<"/", "p", ".", "g">>),
    Str(<<"/", "d", "/", "m", ".", "p", ".", "g">>)}

\* a remove request that awaits the listing of its folder
Listing(op, coll, id, existed, alone) ==
   [pc |-> "list", op |-> op, coll |-> coll, id |-> id, existed |-> existed,
    alone |-> alone, listed |-> {}, pending |-> {}]

\* what a remove request did before it answered: whether the document was
\* there, and the objects the listing gave
Removed(existed, listed) ==
   [t |-> "removed", existed |-> existed, listed |-> listed]

\* the lowest free slot for a request in flight
FreeSlot == CHOOSE r \in DOMAIN reqs :
               /\ reqs[r].pc = "idle"
               /\ \A q \in DOMAIN reqs : q < r => reqs[q].pc # "idle"

\* Promise.all settles with success before every delete has settled
AllSettledEarly(pending) == TRUE

\* Promise.all(deletePromises) resolves when no delete is pending any more
AllSettled(pending) == pending = {}

\* a remove that reports its failures as the featured-image handlers do
AnswerAsMedia(r, status, error, fault) ==
   last' = Response(reqs[r].op, reqs[r].coll, reqs[r].id, Undefined,
                    IF status = 400 THEN 500 ELSE status, error,
                    Removed(reqs[r].existed, reqs[r].listed), fault,
                    reqs[r].alone)

\* the response of the remove request in slot r
Answer(r, status, error, fault) ==
   last' = Response(reqs[r].op, reqs[r].coll, reqs[r].id, Undefined, status,
                    error, Removed(reqs[r].existed, reqs[r].listed), fault,
                    reqs[r].alone)

\* deleteBusinessAndFiles, deletePostAndFiles up to the document delete
RemoveStart(op, coll, id) ==
   \/ /\ id \notin AcceptedMediaIdParams
      /\ Respond(op, coll, id, Undefined, 400, MsgParam, Null, FALSE)
      /\ UNCHANGED <<firestore, nextId, bucket>>
   \/ /\ id \in AcceptedMediaIdParams
      /\ Respond(op, coll, id, Undefined, 400, MsgStore, Null, TRUE)
      /\ UNCHANGED <<firestore, nextId, bucket>>
   \/ /\ id \in AcceptedMediaIdParams
      /\ \E r \in DOMAIN reqs : reqs[r].pc = "idle"
      /\ firestore' = FsDelete(coll, id.v)
      /\ reqs' = [Disturb(reqs) EXCEPT ![FreeSlot] =
                     Listing(op, coll, id, id.v \in DOMAIN firestore[coll],
                             NoneInFlight)]
      /\ UNCHANGED <<nextId, bucket, last, users, currentUser>>

deleteBusinessAndFiles ==
   \E id \in RemoveIdParams :
      RemoveStart("deleteBusinessAndFiles", "business", id)

deletePostAndFiles ==
   \E id \in RemoveIdParams : RemoveStart("deletePostAndFiles", "post", id)

\* a deleteFilesInFolder that throws when the listing gives no object
deleteFilesInFolderStrict(r) ==
   /\ reqs[r].pc = "list"
   /\ UNCHANGED <<firestore, nextId, bucket, users, currentUser>>
   /\ \/ /\ Answer(r, 400, MsgStore, TRUE)
         /\ reqs' = [reqs EXCEPT ![r] = Idle]
      \/ LET files == getFiles(FolderPrefix(reqs[r].coll, reqs[r].id.v))
         IN  IF files = {}
                THEN /\ Answer(r, 400, MsgNoObject, FALSE)
                     /\ reqs' = [reqs EXCEPT ![r] = Idle]
             ELSE /\ reqs' = [reqs EXCEPT ![r].pc = "deleting",
                                          ![r].listed = files,
                                          ![r].pending = files]
                  /\ UNCHANGED last

\* deleteFilesInFolder up to the listing: one delete is started for every
\* listed object; with nothing listed Promise.all([]) resolves at once
deleteFilesInFolder(r) ==
   /\ reqs[r].pc = "list"
   /\ UNCHANGED <<firestore, nextId, bucket, users, currentUser>>
   /\ \/ /\ Answer(r, 400, MsgStore, TRUE)
         /\ reqs' = [reqs EXCEPT ![r] = Idle]
      \/ LET files == getFiles(FolderPrefix(reqs[r].coll, reqs[r].id.v))
         IN  IF files = {}
                THEN /\ Answer(r, 200, "none", FALSE)
                     /\ reqs' = [reqs EXCEPT ![r] = Idle]
             ELSE /\ reqs' = [reqs EXCEPT ![r].pc = "deleting",
                                          ![r].listed = files,
                                          ![r].pending = files]
                  /\ UNCHANGED last

\* a delete that takes every object that is under the folder when it runs
fileDeleteSweep(r, f) ==
   /\ reqs[r].pc \in {"deleting", "draining"}
   /\ f \in reqs[r].pending
   /\ UNCHANGED <<firestore, nextId, users, currentUser>>
   /\ LET pending == reqs[r].pending \ {f}
          rest == IF pending = {} THEN Idle
                  ELSE [reqs[r] EXCEPT !.pc = "draining", !.pending = pending]
      IN  \/ /\ f \in bucket
             /\ bucket' = bucket \ getFiles(FolderPrefix(reqs[r].coll, reqs[r].id.v))
             /\ IF reqs[r].pc = "draining"
                   THEN /\ reqs' = [reqs EXCEPT ![r] = rest]
                        /\ UNCHANGED last
                ELSE IF AllSettled(pending)
                   THEN /\ Answer(r, 200, "none", FALSE)
                        /\ reqs' = [reqs EXCEPT ![r] = rest]
                ELSE /\ reqs' = [reqs EXCEPT ![r].pending = pending]
                     /\ UNCHANGED last
          \/ \E fault \in BOOLEAN :
                /\ fault \/ f \notin bucket
                /\ UNCHANGED bucket
                /\ reqs' = [reqs EXCEPT ![r] = rest]
                /\ IF reqs[r].pc = "draining" THEN UNCHANGED last
                   ELSE Answer(r, 400,
                               IF fault THEN MsgStore ELSE MsgNoObject, fault)

\* one file.delete() of the request in slot r settles; it is rejected when
\* the store fails or the object is there no more.  The first rejection
\* rejects Promise.all and the handler answers 400 while the other deletes
\* go on (pc draining); the last fulfilment fulfils it and the handler
\* answers 200
fileDelete(r, f) ==
   /\ reqs[r].pc \in {"deleting", "draining"}
   /\ f \in reqs[r].pending
   /\ UNCHANGED <<firestore, nextId, users, currentUser>>
   /\ LET pending == reqs[r].pending \ {f}
          rest == IF pending = {} THEN Idle
                  ELSE [reqs[r] EXCEPT !.pc = "draining", !.pending = pending]
      IN  \/ /\ f \in bucket
             /\ bucket' = bucket \ {f}
             /\ IF reqs[r].pc = "draining"
                   THEN /\ reqs' = [reqs EXCEPT ![r] = rest]
                        /\ UNCHANGED last
                ELSE IF AllSettled(pending)
                   THEN /\ Answer(r, 200, "none", FALSE)
                        /\ reqs' = [reqs EXCEPT ![r] = rest]
                ELSE /\ reqs' = [reqs EXCEPT ![r].pending = pending]
                     /\ UNCHANGED last
          \/ \E fault \in BOOLEAN :
                /\ fault \/ f \notin bucket
                /\ UNCHANGED bucket
                /\ reqs' = [reqs EXCEPT ![r] = rest]
                /\ IF reqs[r].pc = "draining" THEN UNCHANGED last
                   ELSE Answer(r, 400,
                               IF fault THEN MsgStore ELSE MsgNoObject, fault)

\* the requests that fill what a remove takes away
RemoveScene ==
   \/ \E body \in {Business1, BusinessPartial} :
         AddNew("addNewBusiness", "business", body \in AcceptedBusinessBodies,
                body)
   \/ \E localFilePath \in RemovePathParams :
         UploadFeatImage("uploadBusinessFeatImage", "business",
                         Str(Rep("a", IdLen)), localFilePath)
   \/ \E id \in RemoveIdParams :
         UploadFeatImage("uploadPostFeatImage", "post", id,
                         Str(<<"/", "p", ".", "g">>))

NextRemove ==
   \/ RemoveScene
   \/ deleteBusinessAndFiles
   \/ deletePostAndFiles
   \/ \E r \in DOMAIN reqs : deleteFilesInFolder(r)
   \/ \E r \in DOMAIN reqs :
         /\ reqs[r].pc # "idle"
         /\ \E f \in reqs[r].pending : fileDelete(r, f)

SpecRemove == Init /\ [][NextRemove]_vars

\* the remove requests arrive one after the other: a remove is sent when no
\* other remove is in flight, the other requests arrive at any time
NextRemoveAlone ==
   \/ RemoveScene
   \/ NoneInFlight /\ deleteBusinessAndFiles
   \/ NoneInFlight /\ deletePostAndFiles
   \/ \E r \in DOMAIN reqs : deleteFilesInFolder(r)
   \/ \E r \in DOMAIN reqs :
         /\ reqs[r].pc # "idle"
         /\ \E f \in reqs[r].pending : fileDelete(r, f)

SpecRemoveAlone == Init /\ [][NextRemoveAlone]_vars

(***************************************************************************)
(* create / update of businesses with a time table.                        *)
(***************************************************************************)
Monday == <<"M", "o", "n", "d", "a", "y">>
Sunday == <<"S", "u", "n", "d", "a", "y">>

\* an entry of timeTable
DayEntry(day, commence, finish) ==
   Obj([day |-> Str(day), isOpen |-> Bool(TRUE), commence |-> commence,
        finish |-> finish])

\* Monday 09:00 - 17:30, Sunday without hours
BusinessOpen ==
   [Business1 EXCEPT !.timeTable =
       Arr(<<DayEntry(Monday, Str(<<"0", "9", ":", "0", "0">>),
                      Str(<<"1", "7", ":", "3", "0">>)),
             DayEntry(Sunday, Null, Null)>>)]

\* two entries for Monday
BusinessTwoMondays ==
   [Business1 EXCEPT !.timeTable =
       Arr(<<DayEntry(Monday, Null, Null),
             DayEntry(Monday, Str(<<"0", "9", ":", "0", "0">>), Null)>>)]

\* the day in lower case
BusinessOddDay ==
   [Business1 EXCEPT !.timeTable =
       Arr(<<DayEntry(toLowerCase(Monday), Null, Null)>>)]

\* commence 9:00
BusinessShortCommence ==
   [Business1 EXCEPT !.timeTable =
       Arr(<<DayEntry(Monday, Str(<<"9", ":", "0", "0">>), Null)>>)]

\* finish 17.30
BusinessOddFinish ==
   [Business1 EXCEPT !.timeTable =
       Arr(<<DayEntry(Sunday, Null, Str(<<"1", "7", ".", "3", "0">>))>>)]

TimeTableBodies ==
   {Business1, BusinessOpen, BusinessTwoMondays, BusinessOddDay,
    BusinessShortCommence, BusinessOddFinish}

AcceptedTimeTableBodies == {body \in TimeTableBodies : isBusiness(body)}

NextTimeTable ==
   \/ \E body \in TimeTableBodies :
         AddNew("addNewBusiness", "business",
                body \in AcceptedTimeTableBodies, body)
   \/ \E id \in IdParams, body \in TimeTableBodies :
         Update("updateBusiness", "business", id,
                body \in AcceptedTimeTableBodies, body)

SpecTimeTable == Init /\ [][NextTimeTable]_vars

(***************************************************************************)
(* update and remove of one business at the same time: the update is one   *)
(* store write; the remove is in flight between its document delete and    *)
(* its answer.                                                             *)
(***************************************************************************)
NextRace ==
   \/ \E body \in {Business1, BusinessPartial} :
         AddNew("addNewBusiness", "business", body \in AcceptedBusinessBodies,
                body)
   \/ \E id \in RemoveIdParams, body \in {Business2, BusinessPartial} :
         Update("updateBusiness", "business", id,
                body \in AcceptedBusinessBodies, body)
   \/ deleteBusinessAndFiles
   \/ \E r \in DOMAIN reqs : deleteFilesInFolder(r)

SpecRace == Init /\ [][NextRace]_vars

(***************************************************************************)
(* tags next to the businesses and posts that refer to them.               *)
(***************************************************************************)
\* a business and a post that refer to the tag with the first auto id
BusinessTagged == [Business1 EXCEPT !.tags = Arr(<<Str(autoId(1))>>)]
PostTagged == [Post1 EXCEPT !.tags = Arr(<<Str(autoId(1))>>)]

NextTags ==
   \/ \E body \in {BusinessTagged, BusinessPartial} :
         AddNew("addNewBusiness", "business", isBusiness(body), body)
   \/ \E body \in {PostTagged, PostPartial} :
         AddNew("addNewPost", "post", isPost(body), body)
   \/ addNewBusinessTag
   \/ updateBusinessTag
   \/ deleteBusinessTag
   \/ addNewPostTag
   \/ updatePostTag
   \/ deletePostTag

SpecTags == Init /\ [][NextTags]_vars

(***************************************************************************)
(* create / update / remove of businesses and posts with tag references.   *)
(***************************************************************************)
\* a reference of 19 characters
BusinessShortTag ==
   [Business1 EXCEPT !.tags = Arr(<<Str(TagX), Str(Rep("x", IdLen - 1))>>)]

\* a reference of 20 characters, one of them not alphanumeric
BusinessOddTag ==
   [Business1 EXCEPT !.tags = Arr(<<Str(Rep("x", IdLen - 1) \o <<"_">>)>>)]

\* tags as a text instead of an array
PostTagText == [Post1 EXCEPT !.tags = Str(TagX)]

TagRefBusinessBodies ==
   {Business1, Business3, BusinessShortTag, BusinessOddTag}

TagRefPostBodies == {Post1, PostTagText}

AcceptedTagRefBodies ==
   {body \in TagRefBusinessBodies : isBusiness(body)}
      \cup {body \in TagRefPostBodies : isPost(body)}

NextTagRefs ==
   \/ \E body \in TagRefBusinessBodies :
         AddNew("addNewBusiness", "business", body \in AcceptedTagRefBodies,
                body)
   \/ \E id \in RemoveIdParams, body \in TagRefBusinessBodies :
         Update("updateBusiness", "business", id,
                body \in AcceptedTagRefBodies, body)
   \/ \E body \in TagRefPostBodies :
         AddNew("addNewPost", "post", body \in AcceptedTagRefBodies, body)
   \/ \E id \in RemoveIdParams, body \in TagRefPostBodies :
         Update("updatePost", "post", id, body \in AcceptedTagRefBodies, body)
   \/ deleteBusinessAndFiles
   \/ deletePostAndFiles
   \/ \E r \in DOMAIN reqs : deleteFilesInFolder(r)

SpecTagRefs == Init /\ [][NextTagRefs]_vars

(***************************************************************************)
(* The routes with their middleware: Express runs the functions of a route *)
(* in order, a middleware handing on with next().                          *)
(***************************************************************************)
\* the routes whose functions the model follows, with the handler each one
\* ends in
RouteOf(op) ==
   CASE op = "addNewBusiness" -> "add-new-business"
     [] op = "getMatchingBusinesses" -> "get-matching-businesses"
     [] op = "getAllBusinesses" -> "get-all-businesses"
     [] op = "addNewBusinessTag" -> "add-new-business-tag"
     [] op = "updateBusinessTag" -> "update-business-tag"
     [] op = "deleteBusinessTag" -> "delete-business-tag"
     [] op = "getAllPosts" -> "get-all-posts"
     [] op = "getPostsByTag" -> "get-posts-by-tag"
     [] op = "addNewPostTag" -> "add-new-post-tag"
     [] op = "updatePostTag" -> "update-post-tag"
     [] op = "deletePostTag" -> "delete-post-tag"

\* route files that put no middleware before any handler
MiddlewareNone(route) == <<>>

\* the middleware the route files put before the handler of a route
Middleware(route) ==
   IF route \in {"get-feat-businesses", "get-matching-businesses",
                 "get-all-business-tags", "get-all-posts", "get-posts-by-tag",
                 "get-feat-posts", "get-all-post-tags"}
      THEN <<"verifyAuthToken">>
      ELSE <<>>

\* values of the Authorization header: none, a scheme alone, a scheme with
\* an empty token, with an issued token and with a token never issued
AuthHeaders ==
   {Undefined, Str(<<"B">>), Str(<<"B", " ">>), Str(<<"B", " ", "g">>),
    Str(<<"B", " ", "x">>)}

\* the tokens admin.auth().verifyIdToken resolves for
IssuedTokens == {<<"g">>}

MsgNoToken == "The token has not been received."
MsgBadToken == "Decoding Firebase ID token failed."

\* request.header("Authorization")?.split(' ')[1]
IdToken(header) ==
   IF header.t # "string" THEN Undefined
   ELSE LET pieces == split(header.v, " ")
        IN  IF Len(pieces) >= 2 THEN Str(pieces[2]) ELSE Undefined

\* the status of a request that has got no response yet: the middleware
\* has called next()
NextCalled == 0

\* verifyAuthToken on a route that names it
verifyAuthToken(route, header) ==
   /\ Middleware(route) = <<"verifyAuthToken">>
   /\ UNCHANGED <<firestore, nextId, bucket>>
   /\ LET idToken == IdToken(header)
      IN  IF Truthy(idToken)
             THEN IF idToken.v \in IssuedTokens
                     THEN Respond("verifyAuthToken", route, Undefined, header,
                                  NextCalled, "none", idToken, FALSE)
                     ELSE Respond("verifyAuthToken", route, Undefined, header,
                                  403, MsgBadToken, Null, FALSE)
             ELSE Respond("verifyAuthToken", route, Undefined, header, 401,
                          MsgNoToken, Null, FALSE)

\* the handler of the route is run: the route has no middleware, or its
\* middleware has just called next()
Admitted(route) ==
   \/ Middleware(route) = <<>>
   \/ /\ last.op = "verifyAuthToken"
      /\ last.coll = route
      /\ last.status = NextCalled

\* getAllBusinesses, getAllPosts
GetAll(op, coll) ==
   /\ UNCHANGED <<firestore, nextId, bucket>>
   /\ \/ Respond(op, coll, Undefined, Undefined, 400, MsgStore, Null, TRUE)
      \/ Respond(op, coll, Undefined, Undefined, 200, "none",
                 Docs(coll, DOMAIN firestore[coll]), FALSE)

getAllBusinesses == GetAll("getAllBusinesses", "business")

getAllPosts == GetAll("getAllPosts", "post")

\* the queries of the search requests that go through the routes
RoutedBusinessQueries ==
   {q \in BusinessQueries :
      q.city = Str(<<>>) /\ q.tags = Str(<<>>) /\ q.name # Str(<<"B">>)}

RoutedPostQueries ==
   {q \in PostQueries : q.tags \in {Undefined, Str(join(<<TagX, TagY>>, ","))}}

NextAuth ==
   \/ \E route \in {"get-matching-businesses", "get-all-posts",
                    "get-posts-by-tag"}, header \in AuthHeaders :
         verifyAuthToken(route, header)
   \/ Admitted("get-all-businesses") /\ getAllBusinesses
   \/ Admitted("get-all-posts") /\ getAllPosts
   \/ /\ Admitted("get-matching-businesses")
      /\ \E q \in RoutedBusinessQueries : MatchingBusinesses(q)
   \/ /\ Admitted("get-posts-by-tag")
      /\ \E q \in RoutedPostQueries : PostsByTag(q)
   \/ /\ Admitted("add-new-business")
      /\ \E body \in {Business1, BusinessPartial} :
            AddNew("addNewBusiness", "business",
                   body \in AcceptedBusinessBodies, body)
   \/ /\ Admitted("add-new-business-tag")
      /\ \E body \in {Tag1, TagBad} :
            AddNew("addNewBusinessTag", "business-tag",
                   body \in AcceptedTagBodies, body)
   \/ /\ Admitted("update-post-tag")
      /\ \E id \in RemoveIdParams, body \in {Tag2, TagBad} :
            Update("updatePostTag", "post-tag", id,
                   body \in AcceptedTagBodies, body)
   \/ /\ Admitted("add-new-post-tag")
      /\ \E body \in {Tag1, TagBad} :
            AddNew("addNewPostTag", "post-tag", body \in AcceptedTagBodies,
                   body)
   \/ /\ Admitted("delete-business-tag")
      /\ \E id \in RemoveIdParams :
            DeleteTag("deleteBusinessTag", "business-tag", id)

SpecAuth == Init /\ [][NextAuth]_vars

(***************************************************************************)
(* Every kind of request with an input its validator takes and one it      *)
(* rejects.                                                                *)
(***************************************************************************)
MsgNoTag == "Tag not found."

\* getBusinessTag, getPostTag
GetTag(op, coll, id) ==
   /\ UNCHANGED <<firestore, nextId, bucket>>
   /\ \/ /\ id \notin AcceptedIdParams
         /\ Respond(op, coll, id, Undefined, 400, MsgParam, Null, FALSE)
      \/ /\ id \in AcceptedIdParams
         /\ Respond(op, coll, id, Undefined, 400, MsgStore, Null, TRUE)
      \/ /\ id \in AcceptedIdParams
         /\ IF id.v \in DOMAIN firestore[coll]
               THEN Respond(op, coll, id, Undefined, 200, "none",
                            Obj(firestore[coll][id.v]), FALSE)
               ELSE Respond(op, coll, id, Undefined, 400, MsgNoTag, Null, FALSE)

getBusinessTag ==
   \E id \in IdParams : GetTag("getBusinessTag", "business-tag", id)

getPostTag == \E id \in IdParams : GetTag("getPostTag", "post-tag", id)

\* a body the validator takes and one it rejects, per collection
ProbeBodies(coll) ==
   CASE coll = "business" -> {Business1, BusinessPartial}
     [] coll = "post" -> {Post1, PostPartial}
     [] OTHER -> {Tag1, TagBad}

AcceptedProbeBodies(coll) ==
   CASE coll = "business" -> AcceptedBusinessBodies
     [] coll = "post" -> AcceptedPostBodies
     [] OTHER -> AcceptedTagBodies

ProbePathParams == {Undefined, Str(<<"/", "p", ".", "g">>)}

NextValidate ==
   \/ \E body \in ProbeBodies("business") :
         AddNew("addNewBusiness", "business",
                body \in AcceptedProbeBodies("business"), body)
   \/ \E body \in ProbeBodies("post-tag") :
         AddNew("addNewPostTag", "post-tag",
                body \in AcceptedProbeBodies("post-tag"), body)
   \/ \E id \in RemoveIdParams, body \in ProbeBodies("business") :
         Update("updateBusiness", "business", id,
                body \in AcceptedProbeBodies("business"), body)
   \/ deleteBusinessAndFiles
   \/ \E r \in DOMAIN reqs : deleteFilesInFolder(r)
   \/ \E r \in DOMAIN reqs :
         /\ reqs[r].pc # "idle"
         /\ \E f \in reqs[r].pending : fileDelete(r, f)
   \/ \E id \in RemoveIdParams :
         DeleteTag("deletePostTag", "post-tag", id)
   \/ \E id \in RemoveIdParams :
         GetTag("getPostTag", "post-tag", id)
   \/ \E q \in RoutedBusinessQueries : MatchingBusinesses(q)
   \/ \E q \in RoutedPostQueries : PostsByTag(q)
   \/ \E id \in RemoveIdParams, localFilePath \in ProbePathParams :
         UploadFeatImage("uploadBusinessFeatImage", "business", id,
                         localFilePath)
   \/ \E id \in RemoveIdParams :
         GetFeatImage("getPostFeatImage", "post", id)
   \/ \E id \in RemoveIdParams :
         DeleteFeatImage("deleteBusinessFeatImage", "business", id)

SpecValidate == Init /\ [][NextValidate]_vars

(***************************************************************************)
(* The featured-image handlers next to create and remove of businesses:    *)
(* folders of ids with and without a document.  The removes arrive one     *)
(* after the other.                                                        *)
(***************************************************************************)
NextFolders ==
   \/ \E body \in {Business1, BusinessPartial} :
         AddNew("addNewBusiness", "business", body \in AcceptedBusinessBodies,
                body)
   \/ \E localFilePath \in RemovePathParams :
         UploadFeatImage("uploadBusinessFeatImage", "business",
                         Str(Rep("a", IdLen)), localFilePath)
   \/ \E id \in RemoveIdParams :
         UploadFeatImage("uploadPostFeatImage", "post", id,
                         Str(<<"/", "p", ".", "g">>))
   \/ \E id \in RemoveIdParams :
         GetFeatImage("getBusinessFeatImage", "business", id)
   \/ \E id \in RemoveIdParams :
         DeleteFeatImage("deleteBusinessFeatImage", "business", id)
   \/ DeleteFeatImage("deletePostFeatImage", "post", Str(Rep("a", IdLen)))
   \/ NoneInFlight /\ deleteBusinessAndFiles
   \/ \E r \in DOMAIN reqs : deleteFilesInFolder(r)
   \/ \E r \in DOMAIN reqs :
         /\ reqs[r].pc # "idle"
         /\ \E f \in reqs[r].pending : fileDelete(r, f)

SpecFolders == Init /\ [][NextFolders]_vars

(***************************************************************************)
(* Every kind of request, the list requests included.                      *)
(***************************************************************************)
NextStatus ==
   \/ NextValidate
   \/ getAllBusinesses
   \/ getAllPosts

SpecStatus == Init /\ [][NextStatus]_vars

(***************************************************************************)
(* Sign-in, sign-out, token refresh and add-new-user.  The client SDK      *)
(* keeps one current user for the process; addNewUser awaits the creation  *)
(* of the account and, after it, the writes of its profile, and other      *)
(* requests run between these steps.                                       *)
(***************************************************************************)
MsgEmail ==
   "The provided email address is either empty or in an invalid format."
MsgPassword == "The provided password is empty or in an valid format."
MsgUserNotFound == "auth/user-not-found"
MsgWrongPassword == "auth/wrong-password"
MsgEmailInUse == "auth/email-already-in-use"
MsgSignedOut ==
   "Token refresh is not possible as the user has been signed out."
MsgNoAdmin == "Current user cannot create administrator accounts."
MsgNoMeta == "User metadata could not be located."

\* user.getIdToken(): an ID token of the user uid
IdTokenOf(uid) == [t |-> "token", uid |-> uid]

\* { id, idToken } of the responses of signIn and addNewUser
Credential(uid) == [t |-> "credential", id |-> uid, idToken |-> IdTokenOf(uid)]

\* isUserSignedIn: !!firebase.auth().currentUser
isUserSignedIn == currentUser # NoUser

\* isUserAdmin(userId); "throws" stands for the error of an account with
\* no user-meta document
isUserAdmin(userId) ==
   IF users[userId].role = Undefined THEN "throws"
   ELSE IF users[userId].role = RoleAdministrator THEN "true"
   ELSE "false"

\* the request bodies of addNewUser: a user, an administrator and a body
\* without firstName
UserBody(email, role) ==
   [email |-> Str(email), password |-> Password, firstName |-> Str(<<"F">>),
    lastName |-> Null, phoneNumber |-> Null, street |-> Null, city |-> Null,
    zipCode |-> Null, country |-> Null, photoURL |-> Null, role |-> role]

UserBodies ==
   {UserBody(UserEmail("a"), RoleUser),
    UserBody(UserEmail("b"), RoleAdministrator),
    [k \in UserFields \ {"firstName"} |->
        UserBody(UserEmail("a"), RoleUser)[k]]}

AcceptedUserBodies ==
   {body \in UserBodies : isUser(body) /\ Truthy(Field(body, "password"))}

\* the users that send requests: the owners of the accounts a and r
Callers == {Str(Uid(UserEmail("a"))), Str(Uid(RootEmail))}

\* the request bodies of signIn
SignInBodies ==
   {[email |-> Undefined, password |-> Password],
    [email |-> Str(UserEmail("a")), password |-> Undefined],
    [email |-> Str(UserEmail("a")), password |-> Password],
    [email |-> Str(UserEmail("a")), password |-> Str(<<"q">>)],
    [email |-> Str(RootEmail), password |-> Password]}

\* a response of a user handler that runs in one step
UserRespond(op, input, status, error, result, fault) ==
   /\ last' = Response(op, "user-meta", Undefined, input, status, error,
                       result, fault, NoneInFlight)
   /\ reqs' = Disturb(reqs)
   /\ UNCHANGED <<firestore, nextId, bucket>>

\* signIn: signInWithEmailAndPassword makes the user the current user of
\* the process
signIn(body) ==
   \/ /\ ~JoiEmail(body.email)
      /\ UserRespond("signIn", body, 400, MsgEmail, Null, FALSE)
      /\ UNCHANGED <<users, currentUser>>
   \/ /\ JoiEmail(body.email)
      /\ ~JoiString(body.password)
      /\ UserRespond("signIn", body, 400, MsgPassword, Null, FALSE)
      /\ UNCHANGED <<users, currentUser>>
   \/ /\ JoiEmail(body.email)
      /\ JoiString(body.password)
      /\ LET uid == Uid(body.email.v)
         IN  IF uid \notin DOMAIN users
                THEN /\ UserRespond("signIn", body, 404, MsgUserNotFound,
                                    Null, FALSE)
                     /\ UNCHANGED <<users, currentUser>>
             ELSE IF users[uid].password # body.password
                THEN /\ UserRespond("signIn", body, 400, MsgWrongPassword,
                                    Null, FALSE)
                     /\ UNCHANGED <<users, currentUser>>
             ELSE /\ currentUser' = Str(uid)
                  /\ UserRespond("signIn", body, 200, "none",
                                 Credential(uid), FALSE)
                  /\ UNCHANGED users

\* signOut: firebase.auth().signOut() clears the current user of the process
signOut(caller) ==
   /\ currentUser' = NoUser
   /\ UserRespond("signOut", caller, 200, "none", Null, FALSE)
   /\ UNCHANGED users

\* refreshAuthToken: the request carries nothing of its caller; the token
\* is the one of the current user of the process
refreshAuthToken(caller) ==
   /\ UNCHANGED <<users, currentUser>>
   /\ IF ~isUserSignedIn
         THEN UserRespond("refreshAuthToken", caller, 403, MsgSignedOut, Null,
                          FALSE)
      ELSE \/ UserRespond("refreshAuthToken", caller, 403, MsgStore, Null,
                          TRUE)
           \/ UserRespond("refreshAuthToken", caller, 200, "none",
                          IdTokenOf(currentUser.v), FALSE)

\* the check addNewUser makes before it creates an administrator: "none"
\* when it passes, the message of the error otherwise
AdminCheck(newUser) ==
   IF newUser.role # RoleAdministrator THEN "none"
   ELSE IF ~isUserSignedIn THEN MsgNoAdmin
   ELSE IF isUserAdmin(currentUser.v) = "throws" THEN MsgNoMeta
   ELSE IF isUserAdmin(currentUser.v) = "false" THEN MsgNoAdmin
   ELSE "none"

\* addNewUser after createUserWithEmailAndPassword: it awaits the writes of
\* the profile
Created(caller, newUser, alone) ==
   [pc |-> "created", op |-> "addNewUser", caller |-> caller,
    body |-> newUser, uid |-> Uid(newUser.email.v), alone |-> alone]

\* addNewUser whose catch has called currentUser.delete() on the account
\* target and has sent the error
Deleting(req, target) == [req EXCEPT !.pc = "rollback", !.uid = target]

\* addNewUser up to createUserWithEmailAndPassword, which makes the new
\* account the current user of the process
addNewUser(caller, newUser) ==
   LET input == [caller |-> caller, body |-> newUser]
   IN  \/ /\ newUser \notin AcceptedUserBodies
          /\ UserRespond("addNewUser", input, 400, MsgBody, Null, FALSE)
          /\ UNCHANGED <<users, currentUser>>
       \/ /\ newUser \in AcceptedUserBodies
          /\ AdminCheck(newUser) # "none"
          /\ UserRespond("addNewUser", input, 400, AdminCheck(newUser), Null,
                         FALSE)
          /\ UNCHANGED <<users, currentUser>>
       \/ /\ newUser \in AcceptedUserBodies
          /\ AdminCheck(newUser) = "none"
          /\ IF Uid(newUser.email.v) \in DOMAIN users
                THEN UserRespond("addNewUser", input, 400, MsgEmailInUse,
                                 Null, FALSE)
                ELSE UserRespond("addNewUser", input, 400, MsgStore, Null,
                                 TRUE)
          /\ UNCHANGED <<users, currentUser>>
       \/ /\ newUser \in AcceptedUserBodies
          /\ AdminCheck(newUser) = "none"
          /\ Uid(newUser.email.v) \notin DOMAIN users
          /\ \E r \in DOMAIN reqs : reqs[r].pc = "idle"
          /\ users' = users @@ (Uid(newUser.email.v) :>
                                   Account(newUser.password, Undefined))
          /\ currentUser' = Str(Uid(newUser.email.v))
          /\ reqs' = [Disturb(reqs) EXCEPT ![FreeSlot] =
                         Created(caller, newUser, NoneInFlight)]
          /\ UNCHANGED <<firestore, nextId, bucket, last>>

\* the response of the addNewUser request in slot r
UserAnswer(r, status, error, result, fault) ==
   last' = Response("addNewUser", "user-meta", Str(reqs[r].uid),
                    [caller |-> reqs[r].caller, body |-> reqs[r].body],
                    status, error, result, fault, reqs[r].alone)

\* addNewUser from the account on: admin.auth().updateUser and the set of
\* the user-meta document, then the answer; when one of them fails the
\* catch calls firebase.auth().currentUser.delete() without awaiting it and
\* answers 400 (with no current user the call throws inside the catch and
\* no answer is sent)
addNewUserProfile(r) ==
   /\ reqs[r].pc = "created"
   /\ UNCHANGED <<firestore, nextId, bucket>>
   /\ \/ /\ reqs[r].uid \in DOMAIN users
         /\ users' = [users EXCEPT ![reqs[r].uid].role = reqs[r].body.role]
         /\ UserAnswer(r, 200, "none", Credential(reqs[r].uid), FALSE)
         /\ reqs' = [reqs EXCEPT ![r] = Idle]
         /\ UNCHANGED currentUser
      \/ /\ UNCHANGED <<users, currentUser>>
         /\ IF isUserSignedIn
               THEN /\ UserAnswer(r, 400, MsgStore, Null, TRUE)
                    /\ reqs' = [reqs EXCEPT ![r] =
                                   Deleting(reqs[r], currentUser.v)]
               ELSE /\ reqs' = [reqs EXCEPT ![r] = Idle]
                    /\ UNCHANGED last

\* the delete() the catch of addNewUser has called settles: the account is
\* gone, and the process is signed out when it was its current user
userDelete(r) ==
   /\ reqs[r].pc = "rollback"
   /\ users' = [uid \in DOMAIN users \ {reqs[r].uid} |-> users[uid]]
   /\ currentUser' = IF currentUser = Str(reqs[r].uid) THEN NoUser
                     ELSE currentUser
   /\ reqs' = [reqs EXCEPT ![r] = Idle]
   /\ UNCHANGED <<firestore, nextId, bucket, last>>

NextUsers ==
   \/ \E body \in SignInBodies : signIn(body)
   \/ \E caller \in Callers : signOut(caller)
   \/ \E caller \in Callers : refreshAuthToken(caller)
   \/ \E caller \in Callers, newUser \in UserBodies :
         addNewUser(caller, newUser)
   \/ \E r \in DOMAIN reqs : addNewUserProfile(r)
   \/ \E r \in DOMAIN reqs : userDelete(r)

SpecUsers == Init /\ [][NextUsers]_vars

(***************************************************************************)
(* Updates next to removes: businesses, posts and business tags are        *)
(* created, updated and removed.                                           *)
(***************************************************************************)
NextUpdates ==
   \/ \E body \in {Business1, BusinessPartial} :
         AddNew("addNewBusiness", "business", body \in AcceptedBusinessBodies,
                body)
   \/ \E id \in RemoveIdParams, body \in {Business2, BusinessPartial} :
         Update("updateBusiness", "business", id,
                body \in AcceptedBusinessBodies, body)
   \/ \E body \in {Post1, PostPartial} :
         AddNew("addNewPost", "post", body \in AcceptedPostBodies, body)
   \/ \E id \in RemoveIdParams, body \in {Post2, PostPartial} :
         Update("updatePost", "post", id, body \in AcceptedPostBodies, body)
   \/ \E body \in {Tag1, TagBad} :
         AddNew("addNewBusinessTag", "business-tag",
                body \in AcceptedTagBodies, body)
   \/ \E id \in RemoveIdParams, body \in {Tag2, TagBad} :
         Update("updateBusinessTag", "business-tag", id,
                body \in AcceptedTagBodies, body)
   \/ NoneInFlight /\ deleteBusinessAndFiles
   \/ NoneInFlight /\ deletePostAndFiles
   \/ \E id \in RemoveIdParams :
         DeleteTag("deleteBusinessTag", "business-tag", id)
   \/ \E r \in DOMAIN reqs : deleteFilesInFolder(r)

SpecUpdates == Init /\ [][NextUpdates]_vars

(***************************************************************************)
(* Properties of search (C1 - C4).                                         *)
(***************************************************************************)
\* the step sends a response
Responded == last' # last

\* the tag ids a stored record carries
RecordTags(doc) ==
   IF Field(doc, "tags").t = "array"
      THEN {Field(doc, "tags").v[i].v : i \in 1..Len(Field(doc, "tags").v)}
      ELSE {}

\* the tag ids a comma-separated tags criterion names
CriteriaTags(tags) == Range(split(tags.v, ","))

\* two characters are the same letter in either case, or the same character
SameLetter(a, b) ==
   \/ a = b
   \/ \E i \in DOMAIN Lowers : {a, b} = {Lowers[i], Uppers[i]}

\* sub occurs in s when letter case is ignored
ContainsIgnoringCase(s, sub) ==
   \E off \in 0..(Len(s) - Len(sub)) :
      \A k \in 1..Len(sub) : SameLetter(s[off + k], sub[k])

\* the ids of the documents a search response carries
ResultIds(resp) == resp.result.v

\* C1: in business search and post search the tags criterion is a
\* disjunction: a search by tags T2 (and no other constraint) returns exactly
\* the stored records whose tags share at least one element with T2.
C1_TagsAnyMatch ==
   [][/\ (/\ Responded
          /\ last'.op = "getMatchingBusinesses"
          /\ last'.status = 200
          /\ Truthy(last'.input.tags)
          /\ ~Truthy(last'.input.city)
          /\ last'.input.name = Str(<<>>))
         => ResultIds(last') =
               {id \in DOMAIN firestore'["business"] :
                  RecordTags(firestore'["business"][id])
                     \cap CriteriaTags(last'.input.tags) # {}}
      /\ (/\ Responded
          /\ last'.op = "getPostsByTag"
          /\ last'.status = 200
          /\ Truthy(last'.input.tags))
         => ResultIds(last') =
               {id \in DOMAIN firestore'["post"] :
                  RecordTags(firestore'["post"][id])
                     \cap CriteriaTags(last'.input.tags) # {}}]_vars

\* a search by two tags has returned a business that carries only one of them
C1_Witness ==
   /\ last.op = "getMatchingBusinesses"
   /\ last.status = 200
   /\ CriteriaTags(last.input.tags) = {TagX, TagY}
   /\ \E id \in last.result.v : RecordTags(firestore["business"][id]) = {TagX}

\* C2: criteria.name is a case-insensitive substring test: a business that
\* passes the store filters is returned iff its name contains criteria.name
\* when letter case is ignored.
C2_NameIgnoresCase ==
   [][(/\ Responded
       /\ last'.op = "getMatchingBusinesses"
       /\ last'.status = 200)
      => /\ \A id \in ResultIds(last') :
               ContainsIgnoringCase(firestore'["business"][id].name.v,
                                    last'.input.name.v)
         /\ (~Truthy(last'.input.tags) /\ ~Truthy(last'.input.city))
               => ResultIds(last') =
                     {id \in DOMAIN firestore'["business"] :
                        ContainsIgnoringCase(
                           firestore'["business"][id].name.v,
                           last'.input.name.v)}]_vars

\* a search by the name B has returned the business named Ab
C2_Witness ==
   /\ last.op = "getMatchingBusinesses"
   /\ last.status = 200
   /\ last.input.name = Str(<<"B">>)
   /\ \E id \in last.result.v :
         firestore["business"][id].name = Str(<<"A", "b">>)

\* C3: a search that supplies tags, city and name returns exactly the stored
\* businesses that share a tag, have the requested city and contain the name.
C3_AllThreeCriteria ==
   [][(/\ Responded
       /\ last'.op = "getMatchingBusinesses"
       /\ last'.status = 200
       /\ Truthy(last'.input.tags)
       /\ Truthy(last'.input.city)
       /\ Truthy(last'.input.name))
      => ResultIds(last') =
            {id \in DOMAIN firestore'["business"] :
               LET doc == firestore'["business"][id]
               IN  /\ RecordTags(doc) \cap CriteriaTags(last'.input.tags) # {}
                   /\ doc.city = last'.input.city
                   /\ ContainsIgnoringCase(doc.name.v, last'.input.name.v)}]_vars

\* C4: every criterion is optional: a search that omits a query parameter is
\* accepted and executed (when the store does not fail), and a search that
\* omits them all returns every record of the collection.
C4_CriteriaOptional ==
   [][/\ (/\ Responded
          /\ last'.op = "getMatchingBusinesses"
          /\ ~last'.fault
          /\ Undefined \in {last'.input.name, last'.input.city, last'.input.tags})
         => /\ last'.status = 200
            /\ (last'.input = [name |-> Undefined, city |-> Undefined,
                               tags |-> Undefined])
                  => ResultIds(last') = DOMAIN firestore'["business"]
      /\ (/\ Responded
          /\ last'.op = "getPostsByTag"
          /\ ~last'.fault
          /\ last'.input.tags = Undefined)
         => /\ last'.status = 200
            /\ ResultIds(last') = DOMAIN firestore'["post"]]_vars

(***************************************************************************)
(* Properties of update (C9, C10).                                         *)
(***************************************************************************)
UpdateOps == {"updateBusiness", "updatePost", "updateBusinessTag", "updatePostTag"}

\* the records the validators accept
ValidRecords ==
   AcceptedBusinessBodies \cup AcceptedPostBodies \cup AcceptedTagBodies

\* C9: update is idempotent: when update(id, r) with a valid record r is run
\* twice in a row and the store fails in neither run, the second run leaves
\* the document store as the first run left it and reports the same outcome.
C9_UpdateIdempotent ==
   [][(/\ last.op \in UpdateOps
       /\ last'.op = last.op
       /\ last'.id = last.id
       /\ last'.input = last.input
       /\ last.input \in ValidRecords
       /\ ~last.fault
       /\ ~last'.fault)
      => /\ firestore' = firestore
         /\ last'.status = last.status
         /\ last'.error = last.error]_vars

\* the same update of an existing business has run twice and succeeded
C9_Witness ==
   /\ last.op = "updateBusiness"
   /\ last.repeat
   /\ last.status = 200
   /\ last.input \in ValidRecords
   /\ firestore["business"][last.id.v] = last.input

\* C10: update is a full replace: once update(id, r) has succeeded, the
\* document stored at id equals r (no field or nested value of the previous
\* document is left).
C10_UpdateReplaces ==
   [][(/\ last'.op \in UpdateOps
       /\ last'.status = 200)
      => /\ last'.id.v \in DOMAIN firestore'[last'.coll]
         /\ firestore'[last'.coll][last'.id.v] = last'.input]_vars

\* an update by a record whose appointments object has one key out of the
\* two that a created business can have has succeeded, and the stored
\* appointments object has that one key
C10_Witness ==
   /\ last.op = "updateBusiness"
   /\ ~last.repeat
   /\ last.status = 200
   /\ last.input = Business2
   /\ DOMAIN firestore["business"][last.id.v].appointments.v = {"a"}

(***************************************************************************)
(* Properties of the featured-image handlers (C5, C6, C8).                 *)
(***************************************************************************)
UploadOps == {"uploadBusinessFeatImage", "uploadPostFeatImage"}
LookupOps ==
   {"getBusinessFeatImage", "getPostFeatImage",
    "deleteBusinessFeatImage", "deletePostFeatImage"}

\* the folder holds no object whose name without extension ends with -feat
NoFeatIn(objects, prefix) ==
   \A f \in objects :
      startsWith(f, prefix) => ~endsWith(parseName(f), FeatSuffix)

\* C5: after a featured-image upload for id B has succeeded, the object it
\* stored lies under <type>/B/ and both lookups find a file in that folder;
\* a lookup request that follows the upload directly does not fail with
\* not-found.
C5_UploadThenLookup ==
   [][/\ (/\ Responded
          /\ last'.op \in UploadOps
          /\ last'.status = 200)
         => /\ last'.result.v \in bucket'
            /\ startsWith(last'.result.v, FolderPrefix(last'.coll, last'.id.v))
            /\ ~NoFeatIn(bucket', FolderPrefix(last'.coll, last'.id.v))
      /\ (/\ last.op \in UploadOps
          /\ last.status = 200
          /\ Responded
          /\ last'.op \in LookupOps
          /\ last'.coll = last.coll
          /\ last'.id = last.id
          /\ ~last'.fault)
         => /\ last'.status = 200
            /\ startsWith(last'.result.v, FolderPrefix(last.coll, last.id.v))]_vars

\* the featured image uploaded from a file with two dots in its name has been
\* looked up and found
C5_Witness ==
   /\ last.op = "getBusinessFeatImage"
   /\ last.status = 200
   /\ basename(last.result.v) = <<"m", "-", "f", "e", "a", "t", ".", "p">>
   /\ last.result.v \in bucket

\* the original file name with -feat put right before its extension (the part
\* from the last dot on); at the end when the name has no dot
FeatFileNameLastDot(localFilePath) ==
   LET fileName == basename(localFilePath)
       dot == LastIndexOf(fileName, ".")
   IN  IF dot = 0 THEN fileName \o FeatSuffix
       ELSE SubSeq(fileName, 1, dot - 1) \o FeatSuffix
               \o SubSeq(fileName, dot, Len(fileName))

\* C6: the remote name of a featured-image upload is the original file name
\* with -feat inserted immediately before its extension, also for names with
\* several dots and for names without a dot.
C6_FeatBeforeExtension ==
   [][(/\ Responded
       /\ last'.op \in UploadOps
       /\ last'.status = 200)
      => basename(last'.result.v) = FeatFileNameLastDot(last'.input.v)]_vars

FolderLeft(files) == {f \in files : startsWith(f, FolderPrefix(last'.coll, last'.id.v))}

\* C7: a remove of a business or a post with a valid id, in which no store
\* operation fails and during which no other request runs, answers 200 and
\* leaves no document at the id and no object under <type>/<id>/; so it
\* does when the folder holds no object at all
C7_RemoveClearsAll ==
   [][(/\ Responded
       /\ last'.op \in RemoveOps
       /\ last'.id \in AcceptedMediaIdParams
       /\ last'.alone
       /\ ~last'.fault)
      => /\ last'.status = 200
         /\ last'.id.v \notin DOMAIN firestore'[last'.coll]
         /\ FolderLeft(bucket') = {}]_vars

\* a remove that ran alone has answered 200 after it deleted a business
\* that was stored and the two objects of its folder
C7_Witness ==
   /\ last.op = "deleteBusinessAndFiles"
   /\ last.status = 200
   /\ last.alone
   /\ last.result = Removed(TRUE, last.result.listed)
   /\ Cardinality(last.result.listed) = 2
   /\ bucket = {}

(***************************************************************************)
(* Properties of business validation (C12).                                *)
(***************************************************************************)
\* two digits, a colon, two digits
TwoColonTwo(s) ==
   /\ Len(s) = 5
   /\ s[3] = ":"
   /\ \A i \in {1, 2, 4, 5} :
         s[i] \in {"0", "1", "2", "3", "4", "5", "6", "7", "8", "9"}

\* an hour that is neither null nor a text of two digits, a colon, two digits
OddHour(h) == h.t # "null" /\ ~(h.t = "string" /\ TwoColonTwo(h.v))

\* a time table with two entries of one day, with a day that is none of the
\* seven, or with an odd commence or finish
FaultyTimeTable(timeTable) ==
   LET entries == timeTable.v
   IN  \/ \E i, j \in 1..Len(entries) :
             i # j /\ entries[i].v.day = entries[j].v.day
       \/ \E i \in 1..Len(entries) :
             \/ entries[i].v.day.v \notin daysOfWeek
             \/ OddHour(entries[i].v.commence)
             \/ OddHour(entries[i].v.finish)

\* C12: a business whose timeTable holds two entries with the same day, a
\* day outside Sunday..Saturday, or a commence / finish that is neither null
\* nor two digits, a colon and two digits, is rejected: the request is
\* answered 400, the store is left as it is, and no stored business has
\* such a timeTable.
C12_TimeTableRejected ==
   /\ [](\A id \in DOMAIN firestore["business"] :
            ~FaultyTimeTable(firestore["business"][id].timeTable))
   /\ [][(/\ Responded
          /\ last'.op \in {"addNewBusiness", "updateBusiness"}
          /\ FaultyTimeTable(last'.input.timeTable))
         => /\ last'.status = 400
            /\ firestore' = firestore]_vars

\* an update with commence 9:00 has been rejected for its body while the
\* business it addresses is stored with commence 09:00
C12_Witness ==
   /\ last.op = "updateBusiness"
   /\ last.input = BusinessShortCommence
   /\ last.status = 400
   /\ last.error = MsgBody
   /\ last.id.v \in DOMAIN firestore["business"]
   /\ firestore["business"][last.id.v] = BusinessOpen

(***************************************************************************)
(* Properties of the two steps of remove (C13, C14).                       *)
(***************************************************************************)
\* the remove requests in flight
InFlight(rs) == {r \in DOMAIN rs : rs[r].pc # "idle"}

\* C13: remove deletes the document first and the folder second, with no
\* transaction: the folder is listed only by a request whose document delete
\* has succeeded; when the store fails in the folder deletion, the request
\* is answered 400, nothing is put back or tried again, and (no other
\* request having run meanwhile) the document is gone and the object whose
\* delete failed is still under <type>/<id>/.
C13_RemoveOrphans ==
   [][/\ \A r \in DOMAIN reqs :
            (reqs[r].pc = "idle" /\ reqs'[r].pc = "list")
               => reqs'[r].id.v \notin DOMAIN firestore'[reqs'[r].coll]
      /\ (/\ Responded
          /\ last'.op \in RemoveOps
          /\ last'.fault
          /\ last'.result = Null)
         => /\ InFlight(reqs') = InFlight(reqs)
            /\ firestore' = firestore
            /\ bucket' = bucket
            /\ last'.status = 400
      /\ (/\ Responded
          /\ last'.op \in RemoveOps
          /\ last'.fault
          /\ last'.result # Null)
         => /\ last'.status = 400
            /\ firestore' = firestore
            /\ bucket' = bucket
            /\ last'.alone
                  => last'.id.v \notin DOMAIN firestore'[last'.coll]
            /\ (last'.alone /\ last'.result.listed # {})
                  => FolderLeft(bucket') # {}]_vars

\* a remove of a stored business has been answered 400 after the store
\* failed in the folder deletion: the business is gone and an object of its
\* folder is left
C13_Witness ==
   /\ last.op = "deleteBusinessAndFiles"
   /\ last.status = 400
   /\ last.fault
   /\ last.alone
   /\ last.result # Null
   /\ last.result.existed
   /\ last.id.v \notin DOMAIN firestore["business"]
   /\ getFiles(FolderPrefix("business", last.id.v)) # {}

\* C14: when deleteFilesInFolder reports its outcome and remove answers,
\* every delete it fanned out has settled: the answering request has no
\* delete in flight any more, also when one of its deletes failed early.
C14_AllSettledAtReport ==
   [][(/\ Responded
       /\ last'.op \in RemoveOps
       /\ last'.result # Null)
      => \A r \in DOMAIN reqs : reqs'[r] # reqs[r] => reqs'[r] = Idle]_vars

(***************************************************************************)
(* Properties of concurrent requests on one id (C15).                      *)
(***************************************************************************)
\* a remove of the stored document at id is in flight: its document delete
\* has been applied and it has not answered yet
RemoveInFlight(coll, id) ==
   \E r \in DOMAIN reqs :
      /\ reqs[r].pc # "idle"
      /\ reqs[r].coll = coll
      /\ reqs[r].id = id
      /\ reqs[r].existed

\* C15: last writer wins: when the write of an update(id, r) with a valid id
\* and a valid record is applied (the store does not fail) to an entity
\* that is stored, or whose concurrent remove has already applied its
\* delete, the document exists afterwards and equals r; when the delete of
\* a remove is applied last, the document is absent afterwards.
C15_LastWriterWins ==
   [][/\ (/\ Responded
          /\ last'.op \in UpdateOps
          /\ isCollectionId(last'.id)
          /\ last'.input \in ValidRecords
          /\ ~last'.fault
          /\ \/ last'.id.v \in DOMAIN firestore[last'.coll]
             \/ RemoveInFlight(last'.coll, last'.id))
         => /\ last'.id.v \in DOMAIN firestore'[last'.coll]
            /\ firestore'[last'.coll][last'.id.v] = last'.input
      /\ \A r \in DOMAIN reqs :
            (reqs[r].pc = "idle" /\ reqs'[r].pc = "list")
               => reqs'[r].id.v \notin DOMAIN firestore'[reqs'[r].coll]]_vars

(***************************************************************************)
(* Properties of requests on an id with no document (C16).                 *)
(***************************************************************************)
\* C16: an operation other than the featured-image lookup and the tag-by-id
\* lookup that is addressed to a well-formed id with no stored document
\* does not end in an error for the absence: an update with a well-formed
\* id and a valid record, in which the store does not fail, is answered 200
\* also when no document is stored at the id.
C16_AbsentNeverErrors ==
   [][(/\ Responded
       /\ last'.op \in UpdateOps
       /\ isCollectionId(last'.id)
       /\ last'.input \in ValidRecords
       /\ ~last'.fault
       /\ last'.id.v \notin DOMAIN firestore[last'.coll])
      => last'.status = 200]_vars

(***************************************************************************)
(* Properties of tags and the references to them (C17, C18).               *)
(***************************************************************************)
TagOps ==
   {"addNewBusinessTag", "updateBusinessTag", "deleteBusinessTag",
    "addNewPostTag", "updatePostTag", "deletePostTag"}

\* the document refers to the tag id
RefersTo(doc, id) ==
   /\ doc.tags.t = "array"
   /\ \E i \in 1..Len(doc.tags.v) : doc.tags.v[i] = id

\* C17: a create, update or delete of a business tag or a post tag leaves
\* every business and every post as it is, the tags arrays that refer to
\* the tag included.
C17_TagsNeverCascade ==
   [][(Responded /\ last'.op \in TagOps)
      => /\ firestore'["business"] = firestore["business"]
         /\ firestore'["post"] = firestore["post"]
         /\ bucket' = bucket]_vars

\* the tag with the first auto id has been deleted and a stored business
\* still refers to it
C17_Witness ==
   /\ last.op = "deleteBusinessTag"
   /\ last.status = 200
   /\ last.id = Str(autoId(1))
   /\ nextId >= 1
   /\ \A c \in Collections : autoId(1) \notin DOMAIN firestore[c]
   /\ \E id \in DOMAIN firestore["business"] :
         RefersTo(firestore["business"][id], last.id)

\* a text of 20 letters and digits
IsTagReference(x) ==
   /\ x.t = "string"
   /\ Len(x.v) = 20
   /\ \A i \in 1..Len(x.v) : x.v[i] \in LetterSet \cup DigitSet

\* C18: the tags field of every stored business and post is null or a
\* sequence of 20-character alphanumeric strings, after any sequence of
\* create, update and remove requests.
C18_TagReferencesWellFormed ==
   \A c \in {"business", "post"} :
      \A id \in DOMAIN firestore[c] :
         LET tags == firestore[c][id].tags
         IN  \/ tags = Null
             \/ /\ tags.t = "array"
                /\ \A i \in 1..Len(tags.v) : IsTagReference(tags.v[i])

\* a business with a reference of 19 characters has been rejected while a
\* stored business refers to a tag id under which no tag is stored
C18_Witness ==
   /\ last.input = BusinessShortTag
   /\ last.status = 400
   /\ last.error = MsgBody
   /\ \E id \in DOMAIN firestore["business"] :
         /\ RefersTo(firestore["business"][id], Str(TagX))
         /\ \A c \in {"business-tag", "post-tag"} :
               TagX \notin DOMAIN firestore[c]

(***************************************************************************)
(* Properties of the gates of the routes (C19, C20).                       *)
(***************************************************************************)
ListAndSearchOps ==
   {"getAllBusinesses", "getAllPosts", "getMatchingBusinesses",
    "getPostsByTag"}

\* C19: the handlers of get-all-businesses, get-all-posts,
\* get-matching-businesses and get-posts-by-tag run, and the store is read,
\* only right after verifyAuthToken has accepted the token of the request on
\* that route.
C19_ListAndSearchGated ==
   [][(Responded /\ last'.op \in ListAndSearchOps)
      => /\ last.op = "verifyAuthToken"
         /\ last.coll = RouteOf(last'.op)
         /\ last.status = NextCalled
         /\ IdToken(last.input).v \in IssuedTokens]_vars

\* C20: a tag collection is changed only by a request that the administrator
\* check has let through; a request from a caller that is not verified or
\* not an administrator writes no tag.
C20_TagMutationsAdminOnly ==
   [][(\/ firestore'["business-tag"] # firestore["business-tag"]
       \/ firestore'["post-tag"] # firestore["post-tag"])
      => /\ last.op = "verifyAdminUser"
         /\ last.coll = RouteOf(last'.op)
         /\ last.status = NextCalled]_vars

(***************************************************************************)
(* Properties of the validation of requests (C11).                         *)
(***************************************************************************)
AddOps ==
   {"addNewBusiness", "addNewPost", "addNewBusinessTag", "addNewPostTag"}

\* the handlers that validate an id parameter
IdOps ==
   UpdateOps \cup RemoveOps \cup UploadOps \cup LookupOps
      \cup {"deleteBusinessTag", "deletePostTag", "getBusinessTag",
            "getPostTag"}

\* the inputs of the requests that their validator rejects
RejectedIds == {id \in RemoveIdParams \cup IdParams : ~isCollectionId(id)}

RejectedBodies ==
   {body \in ProbeBodies("business") : ~isBusiness(body)}
      \cup {body \in ProbeBodies("post") : ~isPost(body)}
      \cup {body \in ProbeBodies("post-tag") : ~isTag(body)}

RejectedPaths == {path \in ProbePathParams : ~isFilePath(path)}

RejectedQueries ==
   {q \in RoutedBusinessQueries : ~isSearchParameters(q)}
      \cup {q \in RoutedPostQueries : ~isSearchParametersPost(q)}

\* the request that the response resp answers failed a validator
FailsValidation(resp) ==
   \/ resp.op \in IdOps /\ resp.id \in RejectedIds
   \/ resp.op \in AddOps \cup UpdateOps /\ resp.input \in RejectedBodies
   \/ resp.op \in UploadOps /\ resp.input \in RejectedPaths
   \/ /\ resp.op \in {"getMatchingBusinesses", "getPostsByTag"}
      /\ resp.input \in RejectedQueries

\* C11: a request whose id parameter, body or query fails its validator is
\* answered with the error of the validator and reaches no store: the
\* document store and the object store are as before, nothing was read
\* from them, no store operation failed and none is left in flight.
C11_InvalidNeverReachesStore ==
   [][(Responded /\ FailsValidation(last'))
      => /\ last'.status \in {400, 500}
         /\ last'.error \in {MsgParam, MsgBody, MsgQuery}
         /\ last'.result = Null
         /\ ~last'.fault
         /\ firestore' = firestore
         /\ bucket' = bucket
         /\ nextId' = nextId
         /\ InFlight(reqs') = InFlight(reqs)]_vars

\* an update of a stored business with a well-formed id and a body without
\* tags has been rejected for its body
C11_Witness ==
   /\ last.op = "updateBusiness"
   /\ last.status = 400
   /\ last.error = MsgBody
   /\ last.input = BusinessPartial
   /\ last.id.v \in DOMAIN firestore["business"]
   /\ bucket # {}

(***************************************************************************)
(* Properties of the city criterion (C21).                                 *)
(***************************************************************************)
\* C21: the city criterion is a case-sensitive exact match of the value as
\* sent: a search with a non-empty city returns only businesses whose stored
\* city equals it character for character, and with no other criterion it
\* returns every such business.
C21_CityAsSent ==
   [][(/\ Responded
       /\ last'.op = "getMatchingBusinesses"
       /\ last'.status = 200
       /\ Truthy(last'.input.city))
      => /\ \A id \in ResultIds(last') :
               firestore'["business"][id].city = last'.input.city
         /\ (~Truthy(last'.input.tags) /\ last'.input.name = Str(<<>>))
               => ResultIds(last') =
                     {id \in DOMAIN firestore'["business"] :
                        firestore'["business"][id].city = last'.input.city}]_vars

(***************************************************************************)
(* Properties of the removal of a featured image (C22).                    *)
(***************************************************************************)
DeleteFeatOps == {"deleteBusinessFeatImage", "deletePostFeatImage"}

\* the objects under prefix whose name without extension ends with -feat
FeatIn(objects, prefix) ==
   {f \in objects :
      startsWith(f, prefix) /\ endsWith(parseName(f), FeatSuffix)}

\* C22: a successful removal of a featured image deletes exactly one object,
\* the first -feat object of the folder in listing order; every other object
\* and the document store are unchanged, and when the folder held several
\* -feat objects a lookup that follows still finds a featured image.
C22_DeleteFeatOnly ==
   [][/\ (/\ Responded
          /\ last'.op \in DeleteFeatOps
          /\ last'.status = 200)
         => LET feat == FeatIn(bucket, FolderPrefix(last'.coll, last'.id.v))
                gone == last'.result.v
            IN  /\ gone \in feat
                /\ \A g \in feat \ {gone} : NameLess(gone, g)
                /\ bucket' = bucket \ {gone}
                /\ firestore' = firestore
      /\ (/\ last.op \in DeleteFeatOps
          /\ last.status = 200
          /\ FeatIn(bucket, FolderPrefix(last.coll, last.id.v)) # {}
          /\ Responded
          /\ last'.op \in LookupOps
          /\ last'.coll = last.coll
          /\ last'.id = last.id
          /\ ~last'.fault)
         => /\ last'.status = 200
            /\ last'.result.v
                  \in FeatIn(bucket, FolderPrefix(last.coll, last.id.v))]_vars

\* the featured image of a stored business that sorts first in its folder
\* has been removed and the second one of the folder is still there
C22_Witness ==
   /\ last.op = "deleteBusinessFeatImage"
   /\ last.status = 200
   /\ last.id.v \in DOMAIN firestore["business"]
   /\ basename(last.result.v) = <<"m", "-", "f", "e", "a", "t", ".", "p">>
   /\ FeatIn(bucket, FolderPrefix("business", last.id.v)) # {}
   /\ last.result.v \notin bucket

(***************************************************************************)
(* Properties of the status of a failure (C23).                            *)
(***************************************************************************)
FeatImageOps == UploadOps \cup LookupOps

IsAdministrator(caller) ==
   /\ caller.v \in DOMAIN users
   /\ users[caller.v].role = RoleAdministrator

\* C24: no request depends on state another request left in the process:
\* the token refreshAuthToken returns is a token of the caller of that
\* request, and addNewUser for the role administrator passes the
\* administrator check only when its caller is an administrator, whoever
\* signed in or out last.
C24_NoSharedState ==
   [][/\ (/\ Responded
          /\ last'.op = "refreshAuthToken"
          /\ last'.status = 200)
         => last'.result.uid = last'.input.v
      /\ \A r \in DOMAIN reqs :
            (/\ reqs[r].pc = "idle"
             /\ reqs'[r].pc = "created"
             /\ reqs'[r].body.role = RoleAdministrator)
            => IsAdministrator(reqs'[r].caller)]_vars
(***************************************************************************)
(* Properties of the rollback of addNewUser (C30).                         *)
(***************************************************************************)
\* C30: when addNewUser fails after it has created its account, the account
\* its rollback deletes is the one this request created, whatever sign-in,
\* sign-out and add-new-user requests run meanwhile, and the error is
\* answered only after that account is gone.
C30_RollbackOwnAccount ==
   [][\A r \in DOMAIN reqs :
         (reqs[r].pc = "created" /\ reqs'[r].pc # "created" /\ last'.status # 200)
         => /\ reqs'[r].pc = "rollback"
            /\ reqs'[r].uid = reqs[r].uid
            /\ Responded => reqs[r].uid \notin DOMAIN users']_vars

(***************************************************************************)
(* Properties of the token gate (C25).                                     *)
(***************************************************************************)
\* the handlers of the routes of the model that name verifyAuthToken
GatedOps == {"getMatchingBusinesses", "getAllPosts", "getPostsByTag"}

\* the Authorization headers that carry no token
NoTokenHeaders == {Undefined, Str(<<"B">>), Str(<<"B", " ">>)}

\* the token of a header that carries one
TokenIn(header) == SubSeq(header.v, 3, Len(header.v))

\* C25: on a route gated by verifyAuthToken a request with no token in its
\* Authorization header is answered 401, one with a token verification
\* rejects is answered 403, and one with a token verification accepts gets
\* the token's principal and is handed on; the handler of a gated route
\* runs only as the step right after verification has handed the request
\* of its route on, so once for that request and never before.
C25_GateOutcomes ==
   [][/\ (Responded /\ last'.op = "verifyAuthToken")
         => LET header == last'.input
            IN  /\ header \in NoTokenHeaders
                   => /\ last'.status = 401
                      /\ last'.error = MsgNoToken
                /\ (/\ header \notin NoTokenHeaders
                    /\ TokenIn(header) \notin IssuedTokens)
                   => last'.status = 403
                /\ (/\ header \notin NoTokenHeaders
                    /\ TokenIn(header) \in IssuedTokens)
                   => /\ last'.status = NextCalled
                      /\ last'.result = Str(TokenIn(header))
      /\ (Responded /\ last'.op \in GatedOps)
         => /\ last.op = "verifyAuthToken"
            /\ last.coll = RouteOf(last'.op)
            /\ last.status = NextCalled
            /\ last.input \notin NoTokenHeaders
            /\ TokenIn(last.input) \in IssuedTokens]_vars

\* C25: the handler of a gated route has answered a search it ran after
\* verification accepted the token, and found a stored business
C25_Witness ==
   /\ last.op = "getMatchingBusinesses"
   /\ last.status = 200
   /\ last.result.t = "docs"
   /\ last.result.v # {}

(***************************************************************************)
(* Properties of update on a document that is not there (C26).             *)
(***************************************************************************)
\* the ids the store has handed out so far
HandedOut == {autoId(n) : n \in 1..nextId}

\* C26: an update request never changes which documents are stored, and an
\* update of a business, post or tag id that has no stored document is
\* answered with an error; so a document a remove has deleted is not
\* brought back by a later update.
C26_UpdateNeverCreates ==
   [][(Responded /\ last'.op \in UpdateOps)
      => /\ \A c \in Collections :
               DOMAIN firestore'[c] = DOMAIN firestore[c]
         /\ last'.id.v \notin DOMAIN firestore[last'.coll]
            => /\ last'.status = 400
               /\ firestore' = firestore]_vars

\* C26: a valid update of a business that was created and then removed has
\* been answered with the store's error, and the business is still gone
C26_Witness ==
   /\ last.op = "updateBusiness"
   /\ last.status = 400
   /\ last.error = MsgNoDocument
   /\ last.input = Business2
   /\ last.id.v \in HandedOut
   /\ last.id.v \notin DOMAIN firestore["business"]

(***************************************************************************)
(* Properties of a remove that is run again (C27).                         *)
(***************************************************************************)
\* C27: a remove with a valid id that finds no document and no object under
\* <type>/<id>/, with no store failure and no other request meanwhile,
\* changes neither the documents nor the objects and answers 200; a remove
\* that is run right after the same remove has answered 200 is such a
\* remove, so it answers 200 as well and leaves the state the first one
\* left.
C27_RemoveIdempotent ==
   [][/\ \A r \in DOMAIN reqs :
            (/\ reqs[r].pc = "idle"
             /\ reqs'[r].pc = "list"
             /\ ~reqs'[r].existed)
            => /\ firestore' = firestore
               /\ bucket' = bucket
      /\ (/\ Responded
          /\ last'.op \in RemoveOps
          /\ last'.result # Null
          /\ last'.alone
          /\ ~last'.fault
          /\ ~last'.result.existed
          /\ last'.result.listed = {})
         => /\ last'.status = 200
            /\ firestore' = firestore
            /\ bucket' = bucket
      /\ (/\ Responded
          /\ last'.op \in RemoveOps
          /\ last'.result # Null
          /\ last'.repeat
          /\ last.status = 200
          /\ last.alone
          /\ last'.alone
          /\ ~last'.fault)
         => /\ ~last'.result.existed
            /\ last'.result.listed = {}
            /\ last'.status = 200
            /\ firestore' = firestore
            /\ bucket' = bucket]_vars

\* C27: the remove of a business that was created has been run again right
\* after it answered 200, found neither the document nor an object, and
\* answered 200 again
C27_Witness ==
   /\ last.op = "deleteBusinessAndFiles"
   /\ last.repeat
   /\ last.alone
   /\ last.status = 200
   /\ last.result = Removed(FALSE, {})
   /\ last.id.v \in HandedOut
   /\ last.id.v \notin DOMAIN firestore["business"]
   /\ getFiles(FolderPrefix("business", last.id.v)) = {}

(***************************************************************************)
(* Properties of the listing of deleteFilesInFolder (C28).                 *)
(***************************************************************************)
DeletesRunning == {"deleting", "draining"}

C29_MediaApartFromDocs ==
   [][(Responded /\ last'.op \in FeatImageOps)
      => /\ firestore' = firestore
         /\ nextId' = nextId
         /\ (/\ last'.op \in UploadOps
             /\ last'.id \in AcceptedMediaIdParams
             /\ last'.input \in AcceptedPathParams
             /\ ~last'.fault)
            => /\ last'.status = 200
               /\ last'.result.v \in bucket'
               /\ startsWith(last'.result.v,
                             FolderPrefix(last'.coll, last'.id.v))
         /\ (/\ last'.op \in LookupOps
             /\ last'.id \in AcceptedMediaIdParams
             /\ ~last'.fault)
            => (last'.status = 200
                <=> FeatIn(bucket, FolderPrefix(last'.coll, last'.id.v))
                       # {})]_vars

\* C29: the upload of a featured image for a business that was created and
\* has been removed was answered 200, and its object is in the bucket under
\* the folder of an id that has no document
C29_Witness ==
   /\ last.op = "uploadBusinessFeatImage"
   /\ last.status = 200
   /\ last.id.v \in HandedOut
   /\ last.id.v \notin DOMAIN firestore["business"]
   /\ last.result.v \in bucket
   /\ NoneInFlight

====
